---- MODULE Spec2Model ----
(***************************************************************************)
(* Assembly-tree and identity-resolution engine of the 3D BOM viewer.      *)
(*                                                                         *)
(* The model follows the React application: App (selection owner, BOM      *)
(* fetch), DynamicBOMTreeView (expanded set, tree clicks),                 *)
(* DynamicInteractiveGLBModel / Model (viewer BOM fetch, scene setup,      *)
(* material snapshot, highlight effect) and setupInteractions (click       *)
(* debouncer and the scene-to-BOM resolver).                               *)
(*                                                                         *)
(* JavaScript strings are sequences of one-character strings, so that      *)
(* equality, String.includes, toLowerCase and the suffix-stripping         *)
(* replace are computed rather than assumed.                               *)
(***************************************************************************)
EXTENDS Integers, Sequences, FiniteSets

\* ------------------------------------------------------------------------
\* Bounds of the model
\* ------------------------------------------------------------------------

\* How many times a model may be opened from the model selector in one run.
MaxOpens == 2

\* How many armed timers of unmounted viewers are kept at a time.
MaxOrphans == 1

\* The search box is used in the first MaxSearchOpens openings of a run.
MaxSearchOpens == 1

\* Length of the record lists the resolver is exercised on (SpecResolver).
MaxRecs == 2

\* ------------------------------------------------------------------------
\* JavaScript values
\* ------------------------------------------------------------------------

\* null / undefined for string-valued fields (reference_name, name, meshName).
\* A one-element sequence whose element is no character, so that it compares
\* unequal to every string, as null === "..." does.
NULL == <<"null">>

\* null for object-valued state (selectedPart, bomData).
None == [none |-> TRUE]

\* selectedModel = null: the model selector is shown.
NoModel == ""

\* parent_id of the root record: null (falsy, never the id of a record).
NoParent == 0

\* undefined: a field a record or a userData object does not have
Undefined == 0 - 1

\* JavaScript truthiness of a string-or-null value: null, undefined and ""
\* are falsy.
Truthy(s) == s # NULL /\ s # <<>>

Digits == {"0", "1", "2", "3", "4", "5", "6", "7", "8", "9"}

DigitChar(d) ==
    CASE d = 0 -> "0" [] d = 1 -> "1" [] d = 2 -> "2" [] d = 3 -> "3"
      [] d = 4 -> "4" [] d = 5 -> "5" [] d = 6 -> "6" [] d = 7 -> "7"
      [] d = 8 -> "8" [] d = 9 -> "9"

\* Number.prototype.toString() of a non-negative integer id.
RECURSIVE IdToString(_)
IdToString(n) ==
    IF n < 10 THEN <<DigitChar(n)>>
    ELSE IdToString(n \div 10) \o <<DigitChar(n % 10)>>

\* String.prototype.includes: t occurs in s as a contiguous run.
Includes(s, t) ==
    \E i \in 0..(Len(s) - Len(t)) :
        \A k \in 1..Len(t) : s[i + k] = t[k]

LowerChar(c) ==
    CASE c = "A" -> "a" [] c = "B" -> "b" [] c = "C" -> "c" [] c = "D" -> "d"
      [] c = "E" -> "e" [] c = "F" -> "f" [] c = "G" -> "g" [] c = "H" -> "h"
      [] c = "I" -> "i" [] c = "J" -> "j" [] c = "K" -> "k" [] c = "L" -> "l"
      [] c = "M" -> "m" [] c = "N" -> "n" [] c = "O" -> "o" [] c = "P" -> "p"
      [] c = "Q" -> "q" [] c = "R" -> "r" [] c = "S" -> "s" [] c = "T" -> "t"
      [] c = "U" -> "u" [] c = "V" -> "v" [] c = "W" -> "w" [] c = "X" -> "x"
      [] c = "Y" -> "y" [] c = "Z" -> "z"
      [] OTHER -> c

\* String.prototype.toLowerCase.
ToLowerCase(s) == [i \in 1..Len(s) |-> LowerChar(s[i])]

\* s.replace(/[-_]\d+$/, ''): drop a trailing separator followed by one or
\* more digits that reach the end of the string.
StripSuffix(s) ==
    LET cut == {i \in 1..Len(s) :
                   /\ s[i] \in {"-", "_"}
                   /\ i < Len(s)
                   /\ \A k \in (i + 1)..Len(s) : s[k] \in Digits}
    IN  IF cut = {} THEN s
        ELSE SubSeq(s, 1, (CHOOSE i \in cut : \A j \in cut : i <= j) - 1)

\* clickedObject.name?.replace(/[-_]\d+$/, '').toLowerCase(); undefined for
\* null/undefined by optional chaining.
Clean(s) == IF s = NULL THEN NULL ELSE ToLowerCase(StripSuffix(s))

\* ------------------------------------------------------------------------
\* The models served by the backend: one BOM document and one scene each
\* ------------------------------------------------------------------------

Models == {"mA", "mB"}

\* The model of the end-to-end scenario, opened on its own.
ScenarioModel == "mS"

\* Every model the backend serves.
Catalog == Models \cup {ScenarioModel}

Shaft01 == <<"S", "h", "a", "f", "t", "-", "0", "1">>

Shaft02 == <<"S", "h", "a", "f", "t", "-", "0", "2">>

\* A PartRecord of assembly_tree.
Rec(id, parent, name, ref) ==
    [id |-> id, parent_id |-> parent, name |-> name, reference_name |-> ref]

\* GET /api/bom/<model.id>: result.data of a successful response.
BomDoc(m) ==
    IF m = "mA"
    THEN [filename |-> "mA",
          assembly_tree |->
            << Rec(1, NoParent, <<"A", "S", "S", "Y">>, NULL),
               Rec(2, 1, <<"S", "u", "b">>, <<"S", "-", "1">>),
               Rec(3, 2, <<"P">>, NULL) >>]
    ELSE IF m = "mB"
    THEN [filename |-> "mB",
          assembly_tree |->
            << Rec(1, NoParent, <<"A", "S", "S", "Y">>, <<"B", "-", "1">>) >>]
    ELSE [filename |-> "mS",
          assembly_tree |->
            << Rec(1, NoParent, <<"A", "S", "S", "Y">>, NULL),
               Rec(2, 1, NULL, Shaft01),
               Rec(3, 1, NULL, Shaft02) >>]

\* A material as loaded from the GLB: obj is the identity class of the
\* JavaScript object ("original": created by the loader; "highlight": a clone
\* made by the highlight effect); emissiveIntensity is in tenths.
LoadedMaterial(color) ==
    [obj |-> "original", color |-> color, emissive |-> 0,
     emissiveIntensity |-> 10]

SceneObject(name, isMesh, color) ==
    [name |-> name, isMesh |-> isMesh, material |-> LoadedMaterial(color)]

\* useGLTF(glbUrl).scene flattened in traversal (depth-first) order.
SceneOf(m) ==
    IF m = "mA"
    THEN << SceneObject(<<"P">>, TRUE, 8421504) >>
    ELSE IF m = "mB"
    THEN << SceneObject(<<"B", "-", "1">>, TRUE, 65280) >>
    ELSE << SceneObject(Shaft01, TRUE, 8421504),
            SceneObject(Shaft02, TRUE, 65280) >>

\* The objects scene.traverse visits, and those of them with child.isMesh.
SceneObjects(scene) == 1..Len(scene)

SceneMeshes(scene) == {i \in SceneObjects(scene) : scene[i].isMesh}

ObjIdx(m) == SceneObjects(SceneOf(m))

\* The drawable primitives, the only objects a raycast can hit.
MeshIdx(m) == SceneMeshes(SceneOf(m))

\* intersects.length = 0: the click hit empty space.
NoObject == 0

\* What a click on the canvas of model m can hit.
ClickTargets(m) == MeshIdx(m) \cup {NoObject}

AllTargets == UNION {ClickTargets(m) : m \in Models}

AllIds == UNION {{BomDoc(m).assembly_tree[i].id :
                      i \in 1..Len(BomDoc(m).assembly_tree)} : m \in Models}

\* ------------------------------------------------------------------------
\* Identity resolver, scene to BOM (setupInteractions / handleSingleClick)
\* ------------------------------------------------------------------------

StrategyNames ==
    << "reference_name_exact", "name_exact", "reference_name_contains",
       "name_contains", "loose_match" >>

\* strategies[k].test(item) for clickedObject.name = meshName.
StrategyTest(k, item, meshName) ==
    CASE k = 1 -> item.reference_name = meshName
      [] k = 2 -> item.name = meshName
      [] k = 3 -> /\ Truthy(item.reference_name)
                  /\ Truthy(meshName)
                  /\ \/ Includes(item.reference_name, meshName)
                     \/ Includes(meshName, item.reference_name)
      [] k = 4 -> /\ Truthy(item.name)
                  /\ Truthy(meshName)
                  /\ \/ Includes(item.name, meshName)
                     \/ Includes(meshName, item.name)
      [] k = 5 -> LET cleanMeshName == Clean(meshName)
                      cleanRefName == Clean(item.reference_name)
                      cleanItemName == Clean(item.name)
                  IN  \/ /\ Truthy(cleanRefName)
                         /\ Truthy(cleanMeshName)
                         /\ Includes(cleanRefName, cleanMeshName)
                      \/ /\ Truthy(cleanItemName)
                         /\ Truthy(cleanMeshName)
                         /\ Includes(cleanItemName, cleanMeshName)

\* Array.prototype.find as an index: the first of the positions whose
\* elements pass the test, 0 when none does.
FirstIndex(hits) ==
    IF hits = {} THEN 0 ELSE CHOOSE i \in hits : \A j \in hits : i <= j

\* The strategy whose find succeeds first in the for-of loop, 0 when all fail.
WinningStrategy(tree, meshName) ==
    LET ok == {k \in 1..Len(StrategyNames) :
                 \E i \in 1..Len(tree) : StrategyTest(k, tree[i], meshName)}
    IN  IF ok = {} THEN 0 ELSE CHOOSE k \in ok : \A j \in ok : k <= j

\* for (const strategy of strategies) { partData = tree.find(strategy.test);
\* if (partData) break; } : the position of partData in the list and the
\* strategy that found it; index 0 when partData stays null.
ResolveBom(tree, meshName) ==
    LET k == WinningStrategy(tree, meshName)
    IN  IF k = 0 THEN [index |-> 0, matchMethod |-> ""]
        ELSE [index |-> FirstIndex({i \in 1..Len(tree) :
                                       StrategyTest(k, tree[i], meshName)}),
              matchMethod |-> StrategyNames[k]]

\* The resolver of the single-model viewer (InteractiveGLBModel): two finds,
\* exact on either field, then contains on either field.
LegacyResolveBom(tree, meshName) ==
    LET first == FirstIndex({i \in 1..Len(tree) :
                                \/ StrategyTest(1, tree[i], meshName)
                                \/ StrategyTest(2, tree[i], meshName)})
    IN  IF first # 0 THEN first
        ELSE FirstIndex({i \in 1..Len(tree) :
                            \/ StrategyTest(3, tree[i], meshName)
                            \/ StrategyTest(4, tree[i], meshName)})

\* ------------------------------------------------------------------------
\* Selection state machine (App)
\* ------------------------------------------------------------------------

\* handlePartSelect as created by the render in which selectedPart was
\* `current` (useCallback with [selectedPart]): the value it passes to
\* setSelectedPart.
HandlePartSelect(current, part) ==
    IF current # None /\ part # None /\ current.id = part.id
    THEN None
    ELSE part

\* id of the placeholder record, `mesh_${uuid.substring(0, 8)}`: a string, so
\* never equal to the integer id of a BOM record; one per scene object.
FallbackId(objIndex) == 0 - objIndex

\* The object handed to onPartSelect by the tree (TreeNode onClick). The
\* fields no handler or effect reads (selectionSource, matchMethod, shape_type,
\* is_assembly, ...) are left out of part objects.
TreePart(node) ==
    [id |-> node.id, name |-> node.name,
     reference_name |-> node.reference_name,
     meshName |-> IF Truthy(node.reference_name) THEN node.reference_name
                  ELSE IF Truthy(node.name) THEN node.name
                  ELSE <<"P", "a", "r", "t", "_">> \o IdToString(node.id),
     isFallback |-> FALSE]

\* 'Unknown Part' and 'Unknown Component' of fallbackData.
UnknownPart == <<"U", "n", "k", "n", "o", "w", "n", " ", "P", "a", "r", "t">>

UnknownComponent ==
    <<"U", "n", "k", "n", "o", "w", "n", " ",
      "C", "o", "m", "p", "o", "n", "e", "n", "t">>

\* partToSelect / fallbackData of handleSingleClick for a hit on scene object
\* objIndex of the scene, resolved against the bomData the handler closed over.
ScenePart(scene, objIndex, capturedBom) ==
    LET clickedObject == scene[objIndex]
        found == IF capturedBom = None
                 THEN [index |-> 0, matchMethod |-> ""]
                 ELSE ResolveBom(capturedBom.assembly_tree, clickedObject.name)
    IN  IF found.index # 0
        THEN LET partData == capturedBom.assembly_tree[found.index]
             IN  [id |-> partData.id, name |-> partData.name,
                  reference_name |-> partData.reference_name,
                  meshName |-> clickedObject.name, isFallback |-> FALSE]
        ELSE [id |-> FallbackId(objIndex),
              name |-> IF Truthy(clickedObject.name) THEN clickedObject.name
                       ELSE UnknownPart,
              reference_name |->
                       IF Truthy(clickedObject.name) THEN clickedObject.name
                       ELSE UnknownComponent,
              meshName |-> clickedObject.name, isFallback |-> TRUE]

\* What handleSingleClick of the single-model viewer (InteractiveGLBModel)
\* passes to onPartSelect for a hit: the record with meshName, or a
\* fallbackData object, which has no isFallback property.
LegacyScenePart(scene, objIndex, capturedBom) ==
    LET clickedObject == scene[objIndex]
        found == IF capturedBom = None THEN 0
                 ELSE LegacyResolveBom(capturedBom.assembly_tree,
                                       clickedObject.name)
    IN  IF found # 0
        THEN LET partData == capturedBom.assembly_tree[found]
             IN  [id |-> partData.id, name |-> partData.name,
                  reference_name |-> partData.reference_name,
                  meshName |-> clickedObject.name]
        ELSE [id |-> FallbackId(objIndex),
              name |-> IF Truthy(clickedObject.name) THEN clickedObject.name
                       ELSE UnknownPart,
              reference_name |->
                       IF Truthy(clickedObject.name) THEN clickedObject.name
                       ELSE UnknownComponent,
              meshName |-> clickedObject.name]

\* What handleSingleClick(intersects) passes to onPartSelect: null for a click
\* on empty space.
SingleClickPart(m, target, capturedBom) ==
    IF target = NoObject THEN None
    ELSE ScenePart(SceneOf(m), target, capturedBom)

\* isCurrentlySelected of handleDoubleClick, on the selectedPart the handler
\* closed over. The last disjunct of the source compares the id with the mesh
\* name: a number is never === a string, and no mesh is named like a
\* placeholder id.
IsCurrentlySelected(capturedSel, meshName) ==
    /\ capturedSel # None
    /\ \/ Truthy(capturedSel.meshName) /\ capturedSel.meshName = meshName
       \/ Truthy(capturedSel.name) /\ capturedSel.name = meshName
       \/ Truthy(capturedSel.reference_name)
             /\ capturedSel.reference_name = meshName

\* What handleDoubleClick(intersects) passes to onPartSelect.
DoubleClickPart(m, target, capturedBom, capturedSel) ==
    IF target = NoObject THEN None
    ELSE IF IsCurrentlySelected(capturedSel, SceneOf(m)[target].name)
    THEN None
    ELSE SingleClickPart(m, target, capturedBom)

\* ------------------------------------------------------------------------
\* Tree view (DynamicBOMTreeView)
\* ------------------------------------------------------------------------

\* buildTree(null)[0]: position of the first record without a parent, 0 when
\* there is none (hierarchicalData = null).
RootIndex(tree) ==
    FirstIndex({i \in 1..Len(tree) : tree[i].parent_id = NoParent})

\* Ids of the children buildTree(id) attaches to node id.
ChildIds(tree, id) ==
    {tree[i].id : i \in {j \in 1..Len(tree) : tree[j].parent_id = id}}

\* The nodes TreeNode renders below and including node id: children are
\* rendered only when the node has children and is expanded.
RECURSIVE RenderedFrom(_, _, _)
RenderedFrom(tree, expanded, id) ==
    {id} \cup
    IF id \in expanded
    THEN UNION {RenderedFrom(tree, expanded, c) : c \in ChildIds(tree, id)}
    ELSE {}

\* Ids of the tree nodes on screen (no search query).
RenderedNodes(bom, expanded) ==
    IF bom = None \/ RootIndex(bom.assembly_tree) = 0 THEN {}
    ELSE RenderedFrom(bom.assembly_tree, expanded,
                      bom.assembly_tree[RootIndex(bom.assembly_tree)].id)

\* tree.find(i => i.id === id) as an index.
IndexOfId(tree, id) == FirstIndex({i \in 1..Len(tree) : tree[i].id = id})

\* expandParents(itemId): the parent ids it adds, following parent_id while it
\* is truthy (neither null nor undefined).
RECURSIVE ExpandParents(_, _)
ExpandParents(tree, itemId) ==
    LET idx == IndexOfId(tree, itemId)
    IN  IF idx # 0 /\ tree[idx].parent_id # NoParent
                   /\ tree[idx].parent_id # Undefined
        THEN {tree[idx].parent_id} \cup ExpandParents(tree, tree[idx].parent_id)
        ELSE {}

\* selectedItem of the auto-expand effect: the first record that has the
\* selected id, or the same reference_name, or the same name; 0 if none.
SelectedItemIndex(tree, part) ==
    FirstIndex({i \in 1..Len(tree) :
                   \/ tree[i].id = part.id
                   \/ tree[i].reference_name = part.reference_name
                   \/ tree[i].name = part.name})

\* An auto-expand effect that sets expandedNodes to the path of the selected
\* item instead of adding the path to it.
AutoExpandReplaces(expanded, part, bom) ==
    IF part = None \/ bom = None THEN expanded
    ELSE LET tree == bom.assembly_tree
             idx == SelectedItemIndex(tree, part)
         IN  IF idx = 0 THEN expanded
             ELSE ExpandParents(tree, tree[idx].id) \cup {tree[idx].id}

\* The auto-expand effect ([selectedPart, bomData]): expandedNodes after it.
AutoExpand(expanded, part, bom) ==
    IF part = None \/ bom = None THEN expanded
    ELSE LET tree == bom.assembly_tree
             idx == SelectedItemIndex(tree, part)
         IN  IF idx = 0 THEN expanded
             ELSE expanded \cup ExpandParents(tree, tree[idx].id)
                           \cup {tree[idx].id}

\* toggleExpanded(nodeId).
ToggleExpanded(expanded, nodeId) ==
    IF nodeId \in expanded THEN expanded \ {nodeId}
    ELSE expanded \cup {nodeId}

\* hierarchicalData = null / filterNode returning null.
NoNode == None

\* { ...item, children }: a node of the hierarchy.
TreeNode(item, children) ==
    [id |-> item.id, parent_id |-> item.parent_id, name |-> item.name,
     reference_name |-> item.reference_name, children |-> children]

\* buildTree putting every record in front of the ones found before it.
RECURSIVE BuildTreeReversedFrom(_, _, _)
BuildTreeReversedFrom(tree, parentId, from) ==
    IF from > Len(tree) THEN <<>>
    ELSE IF tree[from].parent_id = parentId
    THEN BuildTreeReversedFrom(tree, parentId, from + 1)
             \o <<TreeNode(tree[from],
                           BuildTreeReversedFrom(tree, tree[from].id, 1))>>
    ELSE BuildTreeReversedFrom(tree, parentId, from + 1)

\* buildTree(parentId), restricted to the records at positions from..Len:
\* assembly_tree.filter(item => item.parent_id === parentId)
\*              .map(item => ({...item, children: buildTree(item.id)})).
RECURSIVE BuildTreeFrom(_, _, _)
BuildTreeFrom(tree, parentId, from) ==
    IF from > Len(tree) THEN <<>>
    ELSE IF tree[from].parent_id = parentId
    THEN <<TreeNode(tree[from], BuildTreeFrom(tree, tree[from].id, 1))>>
             \o BuildTreeFrom(tree, parentId, from + 1)
    ELSE BuildTreeFrom(tree, parentId, from + 1)

\* buildTree with the recursion into the children left out.
RECURSIVE BuildTreeNoChildrenFrom(_, _, _)
BuildTreeNoChildrenFrom(tree, parentId, from) ==
    IF from > Len(tree) THEN <<>>
    ELSE IF tree[from].parent_id = parentId
    THEN <<TreeNode(tree[from], <<>>)>>
             \o BuildTreeNoChildrenFrom(tree, parentId, from + 1)
    ELSE BuildTreeNoChildrenFrom(tree, parentId, from + 1)

BuildTreeNoChildren(tree, parentId) ==
    BuildTreeNoChildrenFrom(tree, parentId, 1)

\* buildTree(parentId).
BuildTree(tree, parentId) == BuildTreeFrom(tree, parentId, 1)

\* hierarchicalData falling back on the first record, with the records that
\* name it as their parent below it, when buildTree(null) is empty.
HierarchicalDataFirstRecord(bom) ==
    IF bom = None THEN NoNode
    ELSE LET tree == BuildTree(bom.assembly_tree, NoParent)
             first == bom.assembly_tree[1]
         IN  IF Len(tree) > 0 THEN tree[1]
             ELSE TreeNode(first,
                           BuildTreeNoChildren(bom.assembly_tree, first.id))

\* hierarchicalData taking the last element of buildTree(null).
HierarchicalDataLastRoot(bom) ==
    IF bom = None THEN NoNode
    ELSE LET tree == BuildTree(bom.assembly_tree, NoParent)
         IN  IF Len(tree) > 0 THEN tree[Len(tree)] ELSE NoNode

\* hierarchicalData: tree.length > 0 ? tree[0] : null, for tree =
\* buildTree(null).
HierarchicalData(bom) ==
    IF bom = None THEN NoNode
    ELSE LET tree == BuildTree(bom.assembly_tree, NoParent)
         IN  IF Len(tree) > 0 THEN tree[1] ELSE NoNode

\* matches of filterNode in DynamicBOMTreeView.
Matches(node, query) ==
    \/ /\ Truthy(node.reference_name)
       /\ Includes(ToLowerCase(node.reference_name), ToLowerCase(query))
    \/ /\ Truthy(node.name)
       /\ Includes(ToLowerCase(node.name), ToLowerCase(query))
    \/ Includes(IdToString(node.id), query)

\* matches of filterNode in BOMTreeView.
LegacyMatches(node, query) ==
    \/ /\ Truthy(node.reference_name)
       /\ Includes(ToLowerCase(node.reference_name), ToLowerCase(query))
    \/ Includes(IdToString(node.id), query)

\* filterNode of DynamicBOMTreeView, and node.children.map(filterNode)
\* .filter(Boolean) from position `from` on.
RECURSIVE FilterNode(_, _), FilterChildren(_, _, _)
FilterNode(node, query) ==
    LET filteredChildren == FilterChildren(node.children, query, 1)
    IN  IF Matches(node, query) \/ Len(filteredChildren) > 0
        THEN [node EXCEPT !.children = filteredChildren]
        ELSE NoNode

FilterChildren(children, query, from) ==
    IF from > Len(children) THEN <<>>
    ELSE LET kept == FilterNode(children[from], query)
             rest == FilterChildren(children, query, from + 1)
         IN  IF kept = NoNode THEN rest ELSE <<kept>> \o rest

\* filteredData keeping a bare root when nothing matches.
FilteredDataKeepsRoot(hierarchicalData, query) ==
    IF query = <<>> \/ hierarchicalData = NoNode THEN hierarchicalData
    ELSE LET kept == FilterNode(hierarchicalData, query)
         IN  IF kept = NoNode
             THEN [hierarchicalData EXCEPT !.children = <<>>]
             ELSE kept

\* filteredData of DynamicBOMTreeView.
FilteredData(hierarchicalData, query) ==
    IF query = <<>> \/ hierarchicalData = NoNode THEN hierarchicalData
    ELSE FilterNode(hierarchicalData, query)

\* filterNode and filteredData of BOMTreeView.
RECURSIVE LegacyFilterNode(_, _), LegacyFilterChildren(_, _, _)
LegacyFilterNode(node, query) ==
    LET filteredChildren == LegacyFilterChildren(node.children, query, 1)
    IN  IF LegacyMatches(node, query) \/ Len(filteredChildren) > 0
        THEN [node EXCEPT !.children = filteredChildren]
        ELSE NoNode

LegacyFilterChildren(children, query, from) ==
    IF from > Len(children) THEN <<>>
    ELSE LET kept == LegacyFilterNode(children[from], query)
             rest == LegacyFilterChildren(children, query, from + 1)
         IN  IF kept = NoNode THEN rest ELSE <<kept>> \o rest

LegacyFilteredData(hierarchicalData, query) ==
    IF query = <<>> \/ hierarchicalData = NoNode THEN hierarchicalData
    ELSE LegacyFilterNode(hierarchicalData, query)

\* The ids of a (filtered) hierarchy, and of the nodes of it that renderNode
\* finds with children (hasChildren).
RECURSIVE NodeIds(_), ChildrenIds(_, _)
NodeIds(node) ==
    IF node = NoNode THEN {}
    ELSE {node.id} \cup ChildrenIds(node.children, 1)

ChildrenIds(children, from) ==
    IF from > Len(children) THEN {}
    ELSE NodeIds(children[from]) \cup ChildrenIds(children, from + 1)

RECURSIVE ParentIds(_), ParentIdsOf(_, _)
ParentIds(node) ==
    IF node = NoNode THEN {}
    ELSE (IF Len(node.children) > 0 THEN {node.id} ELSE {})
             \cup ParentIdsOf(node.children, 1)

ParentIdsOf(children, from) ==
    IF from > Len(children) THEN {}
    ELSE ParentIds(children[from]) \cup ParentIdsOf(children, from + 1)

\* Ids of the tree nodes on screen: renderNode(filteredData) descends into
\* the children of a node only when expandedNodes has its id.
VisibleNodes(bom, expanded, query) ==
    RenderedNodes(bom, expanded)
        \cap NodeIds(FilteredData(HierarchicalData(bom), query))

\* Ids of the nodes on screen that show the expand/collapse button.
ExpandableNodes(bom, expanded, query) ==
    VisibleNodes(bom, expanded, query)
        \cap ParentIds(FilteredData(HierarchicalData(bom), query))

\* ------------------------------------------------------------------------
\* Material highlight manager (Model setup effect and highlight effect)
\* ------------------------------------------------------------------------

\* highlightMaterial.color.setHex(0xff4444)
HighlightColor == 16729156

\* highlightMaterial.emissive.setHex(0x441100)
HighlightEmissive == 4460800

\* highlightMaterial.emissiveIntensity = 0.3, in tenths
HighlightEmissiveIntensity == 3

\* userData.originalMaterial before the setup effect has run
NoMaterial ==
    [obj |-> "none", color |-> Undefined, emissive |-> Undefined,
     emissiveIntensity |-> Undefined]

\* A mesh as the loader delivers it: its material, and an empty userData.
LoadedMesh(obj) ==
    [material |-> obj.material,
     userData |-> [originalMaterial |-> NoMaterial,
                   originalColor |-> Undefined,
                   originalEmissive |-> Undefined,
                   originalEmissiveIntensity |-> Undefined]]

\* The scene graph object cache of useGLTF: the state of every object of
\* every model as first loaded.
LoadedScene(scene) == [i \in SceneObjects(scene) |-> LoadedMesh(scene[i])]

LoadedScenes == [m \in Catalog |-> LoadedScene(SceneOf(m))]

\* Setup effect, per mesh: userData.originalMaterial = child.material, and
\* clones of its color, emissive and emissiveIntensity.
Snapshot(mesh) ==
    [mesh EXCEPT !.userData =
        [originalMaterial |-> mesh.material,
         originalColor |-> mesh.material.color,
         originalEmissive |-> mesh.material.emissive,
         originalEmissiveIntensity |-> mesh.material.emissiveIntensity]]

\* scene.traverse of the setup effect.
SetupMaterials(scene, ms) ==
    [i \in SceneObjects(scene) |->
        IF scene[i].isMesh THEN Snapshot(ms[i]) ELSE ms[i]]

\* Highlight effect, reset of one mesh: child.material becomes the cached
\* object and the cached color, emissive and intensity are copied into it
\* (child.material and userData.originalMaterial are then the same object).
ResetMesh(mesh) ==
    IF mesh.userData.originalMaterial.obj = "none" THEN mesh
    ELSE LET ud == mesh.userData
             restored ==
                 [obj |-> ud.originalMaterial.obj,
                  color |-> IF ud.originalColor # Undefined
                            THEN ud.originalColor
                            ELSE ud.originalMaterial.color,
                  emissive |-> IF ud.originalEmissive # Undefined
                               THEN ud.originalEmissive
                               ELSE ud.originalMaterial.emissive,
                  emissiveIntensity |->
                            IF ud.originalEmissiveIntensity # Undefined
                            THEN ud.originalEmissiveIntensity
                            ELSE ud.originalMaterial.emissiveIntensity]
         IN  [material |-> restored,
              userData |-> [ud EXCEPT !.originalMaterial = restored]]

\* selectedMesh.userData.originalMaterial.clone() with the highlight values.
HighlightMaterial(mesh) ==
    [obj |-> "highlight", color |-> HighlightColor,
     emissive |-> HighlightEmissive,
     emissiveIntensity |-> HighlightEmissiveIntensity]

\* scene.getObjectByName(name): the first object of that name in traversal
\* order, mesh or not; 0 for undefined.
GetObjectByName(scene, name) ==
    FirstIndex({i \in SceneObjects(scene) : scene[i].name = name})

\* scene.traverse(child => { if (child.isMesh && test) selectedMesh = child })
\* : the traversal does not stop, the last mesh that passes remains.
LastMesh(hits) ==
    IF hits = {} THEN 0 ELSE CHOOSE i \in hits : \A j \in hits : i >= j

\* selectedPart.id.toString(); a placeholder id is the string itself, which
\* names no mesh.
PartIdString(part) == IF part.id > 0 THEN IdToString(part.id) ELSE NULL

\* selectedMesh of the highlight effect for a non-null selectedPart:
\* strategies 1 to 6 of the effect, each tried only while selectedMesh is
\* still null.
FindSelectedMesh(scene, part) ==
    LET MeshName(i) == scene[i].name
        s1 == IF Truthy(part.meshName)
              THEN GetObjectByName(scene, part.meshName) ELSE 0
        s2 == IF s1 = 0 /\ Truthy(part.reference_name)
              THEN LastMesh({i \in SceneMeshes(scene) :
                               MeshName(i) = part.reference_name})
              ELSE s1
        s3 == IF s2 = 0 /\ Truthy(part.name)
              THEN LastMesh({i \in SceneMeshes(scene) : MeshName(i) = part.name})
              ELSE s2
        s4 == IF s3 = 0
              THEN LastMesh({i \in SceneMeshes(scene) :
                               MeshName(i) = PartIdString(part)})
              ELSE s3
        s5 == IF s4 = 0 /\ Truthy(part.reference_name)
              THEN LastMesh({i \in SceneMeshes(scene) :
                               /\ Truthy(MeshName(i))
                               /\ \/ Includes(MeshName(i), part.reference_name)
                                  \/ Includes(part.reference_name, MeshName(i))})
              ELSE s4
        s6 == IF s5 = 0 /\ Truthy(part.name)
              THEN LastMesh({i \in SceneMeshes(scene) :
                               /\ Truthy(MeshName(i))
                               /\ \/ Includes(MeshName(i), part.name)
                                  \/ Includes(part.name, MeshName(i))})
              ELSE s5
    IN  s6

\* The highlight effect ([selectedPart, scene, loadError, camera]) on the
\* scene: reset every mesh, then highlight the resolved mesh.
HighlightEffect(scene, ms, part) ==
    LET reset == [i \in SceneObjects(scene) |->
                     IF scene[i].isMesh THEN ResetMesh(ms[i]) ELSE ms[i]]
        selectedMesh == IF part = None THEN 0 ELSE FindSelectedMesh(scene, part)
    IN  IF selectedMesh # 0 /\ scene[selectedMesh].isMesh
        THEN [reset EXCEPT ![selectedMesh].material =
                               HighlightMaterial(reset[selectedMesh])]
        ELSE reset

\* ------------------------------------------------------------------------
\* Camera framing: focusCameraOnMesh and the useFrame animation
\* ------------------------------------------------------------------------

\* Lengths are integers: one scene unit is UnitsPerLength units, so that the
\* halves of a box centre, the thirds of the normalized direction and the
\* eighths of the easing are exact for MaxFocus animations started one from
\* an intermediate pose of the other.
UnitsPerLength == 3072

MaxFocus == 3

\* A frame may find up to MaxPending setCameraAnimation calls unprocessed.
MaxPending == 4

\* <Canvas camera={{ fov: 60 }}>
CameraFov == 60

\* cameraAnimation.duration, in milliseconds.
AnimationDuration == 1000

\* Frame deltas, in milliseconds: four frames or two to a whole animation.
FrameDeltas == {250, 500}

\* Math.sin(fov / 2) for camera.fov in degrees, as a fraction.
SinHalfFov(fov) ==
    IF fov = 60 THEN [num |-> 1, den |-> 2] ELSE [num |-> 1, den |-> 1]

Abs(x) == IF x < 0 THEN 0 - x ELSE x

Max2(a, b) == IF a >= b THEN a ELSE b

\* THREE.Vector3 arithmetic on <<x, y, z>>.
VAdd(a, b) == <<a[1] + b[1], a[2] + b[2], a[3] + b[3]>>

VSub(a, b) == <<a[1] - b[1], a[2] - b[2], a[3] - b[3]>>

\* Vector3.lerpVectors(v1, v2, alpha) for alpha = eighths / 8.
LerpVectors(v1, v2, eighths) ==
    << v1[1] + ((v2[1] - v1[1]) * eighths) \div 8,
       v1[2] + ((v2[2] - v1[2]) * eighths) \div 8,
       v1[3] + ((v2[3] - v1[3]) * eighths) \div 8 >>

\* Box3: getCenter, getSize, and the largest dimension.
Box(min, max) == [min |-> min, max |-> max]

GetCenter(box) ==
    << (box.min[1] + box.max[1]) \div 2,
       (box.min[2] + box.max[2]) \div 2,
       (box.min[3] + box.max[3]) \div 2 >>

GetSize(box) == VSub(box.max, box.min)

MaxDim(box) ==
    LET size == GetSize(box)
    IN  Max2(Max2(size[1], size[2]), size[3])

\* Math.abs(maxDim / Math.sin(fov / 2)) * factor, factor = fNum / fDen.
FramingDistance(maxDim, fov, fNum, fDen) ==
    (Abs((maxDim * SinHalfFov(fov).den) \div SinHalfFov(fov).num) * fNum)
        \div fDen

\* focusCameraOnMesh: the distance for one mesh, factor 2.5.
FocusDistance(box, fov) == FramingDistance(MaxDim(box), fov, 5, 2)

\* new Vector3(1, 0.5, 1).normalize().multiplyScalar(distance): the vector
\* has length 1.5, so its unit vector is (2/3, 1/3, 2/3).
DirectionTimes(distance) ==
    <<(2 * distance) \div 3, distance \div 3, (2 * distance) \div 3>>

\* focusCameraOnMesh: newCameraPosition.
FocusPosition(box, fov) ==
    VAdd(GetCenter(box), DirectionTimes(FocusDistance(box, fov)))

\* The setup effect's auto-fit: factor 1.5 and the offsets
\* (distance, distance * 0.5, distance) from the centre of the scene.
InitialFit(box, fov) ==
    LET d == FramingDistance(MaxDim(box), fov, 3, 2)
    IN  [position |-> VAdd(GetCenter(box), <<d, d \div 2, d>>),
         target |-> GetCenter(box)]

\* The meshes of the scene under the camera and their bounding boxes: a
\* cube of size (10, 10, 10) at the origin, and a smaller part beside it.
CameraMeshes == {1, 2}

Lengths(x, y, z) ==
    <<x * UnitsPerLength, y * UnitsPerLength, z * UnitsPerLength>>

MeshBox(m) ==
    IF m = 1
    THEN Box(Lengths(0 - 5, 0 - 5, 0 - 5), Lengths(5, 5, 5))
    ELSE Box(Lengths(18, 0 - 1, 0 - 1), Lengths(22, 1, 1))

\* new Box3().setFromObject(scene)
SceneBox == Box(Lengths(0 - 5, 0 - 5, 0 - 5), Lengths(22, 5, 5))

\* The selection resolves to no mesh of the scene.
NoMeshFound == 0 - 1

\* cameraAnimation === null.
NoAnimation == [none |-> TRUE]

\* The animation focusCameraOnMesh hands to setCameraAnimation.
FocusAnimation(camera, box, fov) ==
    [startPosition |-> camera.position,
     endPosition |-> FocusPosition(box, fov),
     startTarget |-> camera.target,
     endTarget |-> GetCenter(box),
     progress |-> 0]

\* setCameraAnimation(value) and setCameraAnimation(prev => ({...prev,
\* progress})): progress counts quarters of the duration.
SetTo(value) == [kind |-> "set", value |-> value, progress |-> 0]

SetProgress(progress) ==
    [kind |-> "progress", value |-> NoAnimation, progress |-> progress]

\* One queued update applied to the state: spreading null gives an object
\* that has a progress and nothing else.
ApplyUpdate(prev, u) ==
    IF u.kind = "set" THEN u.value
    ELSE IF prev = NoAnimation THEN [progress |-> u.progress]
    ELSE [prev EXCEPT !.progress = u.progress]

RECURSIVE ApplyUpdates(_, _)
ApplyUpdates(prev, queue) ==
    IF queue = <<>> THEN prev
    ELSE ApplyUpdates(ApplyUpdate(prev, Head(queue)), Tail(queue))

\* A cameraAnimation with its poses: useFrame can interpolate it.
IsAnimation(a) == a # NoAnimation /\ "startPosition" \in DOMAIN a

\* Math.min(progress + (delta * 1000) / duration, 1), in quarters.
NewProgress(progress, delta) ==
    LET p == progress + (delta * 4) \div AnimationDuration
    IN  IF p > 4 THEN 4 ELSE p

\* easeInOutQuad(t) for t = quarters / 4, in eighths.
EaseInOutQuad(quarters) ==
    IF quarters < 2
    THEN quarters * quarters
    ELSE (8 * quarters - quarters * quarters) - 8

\* ------------------------------------------------------------------------
\* State
\* ------------------------------------------------------------------------

VARIABLES
    selectedModel,      \* App: selectedModel (a model id, or NoModel)
    selectedPart,       \* App: selectedPart (a part object, or None)
    bomData,            \* App: bomData (a BOM document, or None)
    appFetch,           \* App: BOM fetches of handleModelSelect in flight, per model
    opens,              \* number of handleModelSelect calls so far
    expandedNodes,      \* DynamicBOMTreeView: expandedNodes
    vBomData,           \* DynamicInteractiveGLBModel: bomData
    vBomError,          \* DynamicInteractiveGLBModel: bomError is set
    vFetchPending,      \* DynamicInteractiveGLBModel: loadBomData in flight
    sceneReady,         \* Model: the setup effect has run (isInitialLoad = false)
    loadError,          \* Model: loadError is set
    capturedBom,        \* setupInteractions: the bomData argument closed over
    capturedSel,        \* setupInteractions: the selectedPart closed over, by
                        \* handleDoubleClick and by the onPartSelect it was given
    clickCount,         \* setupInteractions: clickCount
    lastClickedObject,  \* setupInteractions: lastClickedObject
    timerPending,       \* setupInteractions: clickTimer is armed and has not fired
    timerTarget,        \* the intersects the armed timer callback closed over
    orphanTimers,       \* armed timers of viewers that have been unmounted
    meshes,             \* per model, the state of the (cached) scene's objects
    rIn,                \* resolver under test: mesh name and record list
    rOut,               \* resolver under test: result
    hScene,             \* Model under test: the scene useGLTF returns
    hMeshes,            \* Model under test: state of the scene's objects
    hMounted,           \* Model under test: mounted, setup effect has run
    hSel,               \* Model under test: the selectedPart prop
    tIn,                \* tree view under test: record list and query
    tOut,               \* tree view under test: hierarchy and filter results
    cam,                \* camera under test: camera.position, controls.target
    anim,               \* camera under test: cameraAnimation as last rendered
    animQueue,          \* camera under test: setCameraAnimation calls that
                        \* no render has processed yet
    cSel,               \* camera under test: the mesh the selection resolves to
    cStep,              \* camera under test: what has just run
    focusCount,         \* camera under test: focusCameraOnMesh calls so far
    deselectedBy,       \* history: the control that has just cleared a
                        \* selection ("reset", "empty"), "" otherwise
    lastPath,           \* history: the click path the viewer's handleClick
                        \* or its timer has just run, and for which hit
    searchQuery         \* App: searchQuery

appVars == <<selectedModel, selectedPart, bomData, appFetch, opens>>
viewerVars == <<vBomData, vBomError, vFetchPending, sceneReady, loadError>>
clickVars == <<capturedBom, capturedSel, clickCount, lastClickedObject,
               timerPending, timerTarget>>
resolverVars == <<rIn, rOut>>
highlightVars == <<hScene, hMeshes, hMounted, hSel>>
treeVars == <<tIn, tOut>>
cameraVars == <<cam, anim, animQueue, cSel, cStep, focusCount>>
unitVars == <<resolverVars, highlightVars, treeVars, cameraVars>>
historyVars == <<deselectedBy, lastPath>>

\* No click path has just run.
NoPath == [path |-> "", target |-> 0]

\* handleSingleClick / handleDoubleClick has just run for the hit.
RanPath(path, target) == [path |-> path, target |-> target]

vars == <<appVars, expandedNodes, viewerVars, clickVars, orphanTimers, meshes,
          unitVars, historyVars, searchQuery>>

NoInput == [meshName |-> <<>>, tree |-> <<>>]
NoOutput ==
    [done |-> FALSE, index |-> 0, matchMethod |-> "", legacy |-> 0,
     part |-> None, legacyPart |-> None]

\* The App as mounted: the model selector is shown, nothing is loaded.
InitApp ==
    /\ deselectedBy = ""
    /\ lastPath = NoPath
    /\ selectedModel = NoModel
    /\ selectedPart = None
    /\ searchQuery = <<>>
    /\ bomData = None
    /\ appFetch = [m \in Catalog |-> 0]
    /\ opens = 0
    /\ expandedNodes = {1}
    /\ vBomData = None
    /\ vBomError = FALSE
    /\ vFetchPending = FALSE
    /\ sceneReady = FALSE
    /\ loadError = FALSE
    /\ capturedBom = None
    /\ capturedSel = None
    /\ clickCount = 0
    /\ lastClickedObject = NoObject
    /\ timerPending = FALSE
    /\ timerTarget = NoObject
    /\ orphanTimers = {}
    /\ meshes = LoadedScenes

\* No resolver call under test.
IdleResolver ==
    /\ rIn = NoInput
    /\ rOut = NoOutput

\* No Model under test.
IdleHighlight ==
    /\ hScene = <<>>
    /\ hMeshes = <<>>
    /\ hMounted = FALSE
    /\ hSel = None

\* No tree view under test.
NoTreeInput == [tree |-> <<>>, q |-> <<>>]

NoTreeOutput ==
    [done |-> FALSE, roots |-> 0, hierarchy |-> NoNode, filtered |-> NoNode,
     legacyFiltered |-> NoNode]

IdleTree ==
    /\ tIn = NoTreeInput
    /\ tOut = NoTreeOutput

\* No camera is followed: the pose, the animation state and the focus
\* requests of the viewer are left out of the behaviours that start here.
NoCamera == [position |-> <<0, 0, 0>>, target |-> <<0, 0, 0>>]

IdleCamera ==
    /\ cam = NoCamera
    /\ anim = NoAnimation
    /\ animQueue = <<>>
    /\ cSel = 0
    /\ cStep = ""
    /\ focusCount = 0

Init ==
    /\ InitApp
    /\ IdleResolver
    /\ IdleHighlight
    /\ IdleTree
    /\ IdleCamera

\* A viewer (DynamicInteractiveGLBModel, Canvas, Model) that is not mounted,
\* or has just been mounted: fresh component state, no interaction closure.
ViewerFresh(fetching) ==
    /\ vBomData' = None
    /\ vBomError' = FALSE
    /\ vFetchPending' = fetching
    /\ sceneReady' = FALSE
    /\ loadError' = FALSE
    /\ capturedBom' = None
    /\ capturedSel' = None
    /\ clickCount' = 0
    /\ lastClickedObject' = NoObject
    /\ timerPending' = FALSE
    /\ timerTarget' = NoObject

\* new Box3().setFromObject(mesh) for object i of the scene of model m: the
\* one part of "mA" fills the scene, the other scenes hold the cube and the
\* smaller part.
ModelMeshBox(m, i) == IF m = "mA" THEN SceneBox ELSE MeshBox(i)

\* setSelectedPart(next) and the effects of the render that follows: the
\* auto-expand effect of the mounted tree view and the highlight effect of
\* the mounted Model, which resets the materials, highlights the mesh the
\* part resolves to and calls focusCameraOnMesh for it. The render of the
\* Model processes the setCameraAnimation calls queued so far.
\* setSelectedPart(null) on a null selection changes no state and triggers
\* no render. The camera is followed where a specification starts with one
\* (cam # NoCamera).
SetSelectedPart(next) ==
    /\ selectedPart' = next
    /\ expandedNodes' =
          IF selectedModel # NoModel
          THEN AutoExpand(expandedNodes, next, bomData)
          ELSE expandedNodes
    /\ meshes' =
          IF selectedModel # NoModel /\ sceneReady
                /\ (next # None \/ selectedPart # None)
          THEN [meshes EXCEPT ![selectedModel] =
                                 HighlightEffect(SceneOf(selectedModel), @, next)]
          ELSE meshes
    /\ LET effect == /\ cam # NoCamera
                     /\ selectedModel # NoModel
                     /\ sceneReady
                     /\ (next # None \/ selectedPart # None)
           found == IF effect /\ next # None
                    THEN FindSelectedMesh(SceneOf(selectedModel), next)
                    ELSE 0
           focuses == found # 0 /\ SceneOf(selectedModel)[found].isMesh
       IN  IF effect
           THEN /\ focuses => focusCount < MaxFocus
                /\ anim' = ApplyUpdates(anim, animQueue)
                /\ animQueue' =
                      IF focuses
                      THEN << SetTo(NoAnimation),
                              SetTo(FocusAnimation(
                                        cam,
                                        ModelMeshBox(selectedModel, found),
                                        CameraFov)) >>
                      ELSE <<>>
                /\ focusCount' = IF focuses THEN focusCount + 1
                                 ELSE focusCount
                /\ cSel' = IF focuses THEN found
                           ELSE IF next = None THEN 0 ELSE NoMeshFound
                /\ cStep' = IF next = None THEN "deselect" ELSE "select"
                /\ UNCHANGED cam
           ELSE UNCHANGED cameraVars

\* ------------------------------------------------------------------------
\* Operations
\* ------------------------------------------------------------------------

\* App.handleModelSelect(model), up to the await: called from the model
\* selector, which is shown only while no model is selected. Mounts the tree
\* view and the viewer, which starts its own BOM fetch.
HandleModelSelect(m) ==
    /\ selectedModel = NoModel
    /\ opens < MaxOpens
    /\ opens' = opens + 1
    /\ selectedModel' = m
    /\ selectedPart' = None
    /\ bomData' = None
    /\ appFetch' = [appFetch EXCEPT ![m] = @ + 1]
    /\ expandedNodes' = {1}
    /\ ViewerFresh(TRUE)
    /\ UNCHANGED <<orphanTimers, meshes, unitVars, searchQuery>>
    /\ deselectedBy' = ""
    /\ lastPath' = NoPath

\* App.handleModelSelect(model), after the await: the response of one fetch
\* in flight arrives. setBomData re-renders; the auto-expand effect of a
\* mounted tree view runs on the new bomData.
AppBomResponse(m, success) ==
    /\ appFetch[m] > 0
    /\ appFetch' = [appFetch EXCEPT ![m] = @ - 1]
    /\ bomData' = IF success THEN BomDoc(m) ELSE bomData
    /\ expandedNodes' =
          IF success /\ selectedModel # NoModel
          THEN AutoExpand(expandedNodes, selectedPart, BomDoc(m))
          ELSE expandedNodes
    /\ UNCHANGED <<selectedModel, selectedPart, opens, viewerVars, clickVars,
                   orphanTimers, meshes, unitVars, searchQuery>>
    /\ deselectedBy' = ""
    /\ lastPath' = NoPath

\* DynamicInteractiveGLBModel.loadBomData, after the await, for the mounted
\* viewer (a response for an unmounted viewer sets no state).
ViewerBomResponse(success) ==
    /\ selectedModel # NoModel
    /\ vFetchPending
    /\ vFetchPending' = FALSE
    /\ vBomData' = IF success THEN BomDoc(selectedModel) ELSE vBomData
    /\ vBomError' = ~success
    /\ UNCHANGED <<appVars, expandedNodes, sceneReady, loadError, clickVars,
                   orphanTimers, meshes, unitVars, searchQuery>>
    /\ deselectedBy' = ""
    /\ lastPath' = NoPath

\* The GLB has loaded and Model commits: the setup effect snapshots the
\* materials and calls setupInteractions with the props of this render, then
\* the highlight effect runs for the current selection.
SceneLoaded ==
    /\ selectedModel # NoModel
    /\ ~sceneReady
    /\ ~loadError
    /\ sceneReady' = TRUE
    /\ capturedBom' = vBomData
    /\ capturedSel' = selectedPart
    /\ meshes' = [meshes EXCEPT ![selectedModel] =
                    HighlightEffect(SceneOf(selectedModel),
                                    SetupMaterials(SceneOf(selectedModel), @),
                                    selectedPart)]
    /\ UNCHANGED <<appVars, expandedNodes, vBomData, vBomError, vFetchPending,
                   loadError, clickCount, lastClickedObject, timerPending, timerTarget,
                   orphanTimers, unitVars, searchQuery>>
    /\ deselectedBy' = ""
    /\ lastPath' = NoPath

\* useGLTF hands Model an error instead of a scene: the error effect sets
\* loadError and ends the loading state. With loadError set the setup effect
\* and the highlight effect return at their guards and Model renders the
\* error mesh, so no click listener is installed.
SceneFailed ==
    /\ selectedModel # NoModel
    /\ ~sceneReady
    /\ ~loadError
    /\ loadError' = TRUE
    /\ UNCHANGED <<appVars, expandedNodes, vBomData, vBomError, vFetchPending,
                   sceneReady, clickVars, orphanTimers, meshes, unitVars,
                   searchQuery>>
    /\ deselectedBy' = ""
    /\ lastPath' = NoPath

\* An armed timer whose viewer is gone, as what its callback will do:
\* handleSingleClick passes a part to the onPartSelect it closed over, and
\* that handlePartSelect passes `next` to setSelectedPart.
OrphanTimer(m, target, bom, sel) ==
    [next |-> HandlePartSelect(sel, SingleClickPart(m, target, bom))]

\* handleBackToModels with the setSelectedPart(null) call left out.
HandleBackToModelsKeepsSelection ==
    /\ selectedModel # NoModel
    /\ selectedModel' = NoModel
    /\ selectedPart' = selectedPart
    /\ bomData' = None
    /\ timerPending => Cardinality(orphanTimers) < MaxOrphans
    /\ orphanTimers' =
          IF timerPending
          THEN orphanTimers \cup
                 {OrphanTimer(selectedModel, timerTarget, capturedBom,
                              capturedSel)}
          ELSE orphanTimers
    /\ ViewerFresh(FALSE)
    /\ UNCHANGED <<appFetch, opens, expandedNodes, meshes, unitVars>>
    /\ searchQuery' = <<>>
    /\ deselectedBy' = ""
    /\ lastPath' = NoPath

\* App.handleBackToModels: the viewer and the tree view unmount. The cleanup
\* function setupInteractions returned was dropped by the setup effect, so
\* an armed timer stays armed; no effect touches the cached scene.
HandleBackToModels ==
    /\ selectedModel # NoModel
    /\ selectedModel' = NoModel
    /\ selectedPart' = None
    /\ bomData' = None
    /\ timerPending => Cardinality(orphanTimers) < MaxOrphans
    /\ orphanTimers' =
          IF timerPending
          THEN orphanTimers \cup
                 {OrphanTimer(selectedModel, timerTarget, capturedBom,
                              capturedSel)}
          ELSE orphanTimers
    /\ ViewerFresh(FALSE)
    /\ UNCHANGED <<appFetch, opens, expandedNodes, meshes, unitVars>>
    /\ searchQuery' = <<>>
    /\ deselectedBy' = ""
    /\ lastPath' = NoPath

\* handleResetView with the setSelectedPart(null) call left out.
HandleResetViewKeepsSelection ==
    /\ selectedModel # NoModel
    /\ deselectedBy' = IF selectedPart # None THEN "reset" ELSE ""
    /\ UNCHANGED <<appVars, expandedNodes, viewerVars, clickVars,
                   orphanTimers, meshes, unitVars, searchQuery>>
    /\ lastPath' = NoPath

\* App.handleResetView (toolbar button).
HandleResetView ==
    /\ selectedModel # NoModel
    /\ SetSelectedPart(None)
    /\ UNCHANGED <<selectedModel, bomData, appFetch, opens, viewerVars,
                   clickVars, orphanTimers, resolverVars, highlightVars,
                   treeVars, searchQuery>>
    /\ deselectedBy' = IF selectedPart # None THEN "reset" ELSE ""
    /\ lastPath' = NoPath

\* TreeNode onClick on a node that is on screen: onPartSelect is the
\* handlePartSelect of the current render.
TreeNodeClick(id) ==
    /\ selectedModel # NoModel
    /\ id \in VisibleNodes(bomData, expandedNodes, searchQuery)
    /\ LET node == bomData.assembly_tree[IndexOfId(bomData.assembly_tree, id)]
           part == TreePart(node)
       IN  /\ SetSelectedPart(HandlePartSelect(selectedPart, part))
    /\ UNCHANGED <<selectedModel, bomData, appFetch, opens, viewerVars,
                   clickVars, orphanTimers, resolverVars, highlightVars,
                   treeVars, searchQuery>>
    /\ deselectedBy' = ""
    /\ lastPath' = NoPath

\* The expand/collapse button of a node on screen that has children.
ToggleExpandedClick(id) ==
    /\ selectedModel # NoModel
    /\ id \in ExpandableNodes(bomData, expandedNodes, searchQuery)
    /\ expandedNodes' = ToggleExpanded(expandedNodes, id)
    /\ UNCHANGED <<appVars, viewerVars, clickVars, orphanTimers, meshes,
                   unitVars, searchQuery>>
    /\ deselectedBy' = ""
    /\ lastPath' = NoPath

\* What the user types into the search panel.
SearchQueries == {<<>>, <<"P">>}

\* SearchPanel onChange: onSearchChange is the setSearchQuery of the App.
\* The App renders again and the Model with it: that render processes the
\* setCameraAnimation calls queued so far.
OnSearchChange(q) ==
    /\ selectedModel # NoModel
    /\ opens <= MaxSearchOpens
    /\ q # searchQuery
    /\ searchQuery' = q
    /\ anim' = ApplyUpdates(anim, animQueue)
    /\ animQueue' = <<>>
    /\ cStep' = IF animQueue # <<>> THEN "render" ELSE cStep
    /\ UNCHANGED <<cam, cSel, focusCount>>
    /\ UNCHANGED <<appVars, expandedNodes, viewerVars, clickVars,
                   orphanTimers, meshes, resolverVars, highlightVars,
                   treeVars>>
    /\ deselectedBy' = ""
    /\ lastPath' = NoPath

\* handleClick, clickCount === 1: arm the timer and record the target.
FirstClick(target) ==
    /\ selectedModel # NoModel
    /\ sceneReady
    /\ target \in ClickTargets(selectedModel)
    /\ clickCount = 0
    /\ clickCount' = 1
    /\ lastClickedObject' = target
    /\ timerPending' = TRUE
    /\ timerTarget' = target
    /\ UNCHANGED <<appVars, expandedNodes, viewerVars, capturedBom,
                   capturedSel, orphanTimers, meshes, unitVars, searchQuery>>
    /\ deselectedBy' = ""
    /\ lastPath' = NoPath

\* A handleClick whose double-click branch leaves out clearTimeout: the timer
\* armed by the first click stays pending.
DoubleClickKeepsTimer(target) ==
    /\ selectedModel # NoModel
    /\ sceneReady
    /\ target \in ClickTargets(selectedModel)
    /\ clickCount = 1
    /\ target = lastClickedObject
    /\ clickCount' = 0
    /\ lastClickedObject' = NoObject
    /\ UNCHANGED <<timerPending, timerTarget>>
    /\ LET part == DoubleClickPart(selectedModel, target, capturedBom,
                                   capturedSel)
       IN  /\ SetSelectedPart(HandlePartSelect(capturedSel, part))
    /\ UNCHANGED <<selectedModel, bomData, appFetch, opens, viewerVars,
                   capturedBom, capturedSel, orphanTimers, resolverVars, highlightVars,
                   treeVars, searchQuery>>
    /\ deselectedBy' = IF target = NoObject /\ selectedPart # None
                       THEN "empty" ELSE ""
    /\ lastPath' = RanPath("double", target)

\* A handleClick whose last branch runs handleSingleClick for the hit of the
\* first click instead of the hit of the second.
SecondClickElsewhereOldTarget(target) ==
    /\ selectedModel # NoModel
    /\ sceneReady
    /\ target \in ClickTargets(selectedModel)
    /\ clickCount = 1
    /\ target # lastClickedObject
    /\ clickCount' = 0
    /\ lastClickedObject' = NoObject
    /\ timerPending' = FALSE
    /\ timerTarget' = NoObject
    /\ LET part == SingleClickPart(selectedModel, timerTarget, capturedBom)
       IN  /\ SetSelectedPart(HandlePartSelect(capturedSel, part))
    /\ UNCHANGED <<selectedModel, bomData, appFetch, opens, viewerVars,
                   capturedBom, capturedSel, orphanTimers, resolverVars, highlightVars,
                   treeVars, searchQuery>>
    /\ deselectedBy' = IF timerTarget = NoObject /\ selectedPart # None
                       THEN "empty" ELSE ""
    /\ lastPath' = RanPath("single", timerTarget)

\* handleClick, clickCount === 2 on the same object: clearTimeout and
\* handleDoubleClick.
DoubleClick(target) ==
    /\ selectedModel # NoModel
    /\ sceneReady
    /\ target \in ClickTargets(selectedModel)
    /\ clickCount = 1
    /\ target = lastClickedObject
    /\ clickCount' = 0
    /\ lastClickedObject' = NoObject
    /\ timerPending' = FALSE
    /\ timerTarget' = NoObject
    /\ LET part == DoubleClickPart(selectedModel, target, capturedBom,
                                   capturedSel)
       IN  /\ SetSelectedPart(HandlePartSelect(capturedSel, part))
    /\ UNCHANGED <<selectedModel, bomData, appFetch, opens, viewerVars,
                   capturedBom, capturedSel, orphanTimers, resolverVars, highlightVars,
                   treeVars, searchQuery>>
    /\ deselectedBy' = IF target = NoObject /\ selectedPart # None
                       THEN "empty" ELSE ""
    /\ lastPath' = RanPath("double", target)

\* handleClick, second click on another object: clearTimeout and
\* handleSingleClick for the new hit.
SecondClickElsewhere(target) ==
    /\ selectedModel # NoModel
    /\ sceneReady
    /\ target \in ClickTargets(selectedModel)
    /\ clickCount = 1
    /\ target # lastClickedObject
    /\ clickCount' = 0
    /\ lastClickedObject' = NoObject
    /\ timerPending' = FALSE
    /\ timerTarget' = NoObject
    /\ LET part == SingleClickPart(selectedModel, target, capturedBom)
       IN  /\ SetSelectedPart(HandlePartSelect(capturedSel, part))
    /\ UNCHANGED <<selectedModel, bomData, appFetch, opens, viewerVars,
                   capturedBom, capturedSel, orphanTimers, resolverVars, highlightVars,
                   treeVars, searchQuery>>
    /\ deselectedBy' = IF target = NoObject /\ selectedPart # None
                       THEN "empty" ELSE ""
    /\ lastPath' = RanPath("single", target)

\* The armed timer of the mounted viewer fires after DOUBLE_CLICK_DELAY:
\* handleSingleClick for the recorded hit. Timers of one delay fire in the
\* order they were armed, so the timers of unmounted viewers fire first.
TimerExpire ==
    /\ timerPending
    /\ orphanTimers = {}
    /\ clickCount' = 0
    /\ lastClickedObject' = NoObject
    /\ timerPending' = FALSE
    /\ timerTarget' = NoObject
    /\ LET part == SingleClickPart(selectedModel, timerTarget, capturedBom)
       IN  /\ SetSelectedPart(HandlePartSelect(capturedSel, part))
    /\ UNCHANGED <<selectedModel, bomData, appFetch, opens, viewerVars,
                   capturedBom, capturedSel, orphanTimers, resolverVars, highlightVars,
                   treeVars, searchQuery>>
    /\ deselectedBy' = IF timerTarget = NoObject /\ selectedPart # None
                       THEN "empty" ELSE ""
    /\ lastPath' = RanPath("single", timerTarget)

\* A timer armed in a viewer that has since been unmounted fires: its
\* handleSingleClick calls the onPartSelect it closed over, which sets the
\* selection of the App.
OrphanTimerExpire ==
    /\ \E t \in orphanTimers :
          /\ orphanTimers' = orphanTimers \ {t}
          /\ SetSelectedPart(t.next)
    /\ UNCHANGED <<selectedModel, bomData, appFetch, opens, viewerVars,
                   clickVars, resolverVars, highlightVars,
                   treeVars, searchQuery>>
    /\ deselectedBy' = ""
    /\ lastPath' = NoPath

Next ==
    \/ \E m \in Models : HandleModelSelect(m)
    \/ \E m \in Models, success \in BOOLEAN : AppBomResponse(m, success)
    \/ \E success \in BOOLEAN : ViewerBomResponse(success)
    \/ SceneLoaded
    \/ SceneFailed
    \/ HandleBackToModels
    \/ HandleResetView
    \/ \E id \in AllIds : TreeNodeClick(id)
    \/ \E id \in AllIds : ToggleExpandedClick(id)
    \/ \E q \in SearchQueries : OnSearchChange(q)
    \/ \E target \in AllTargets : FirstClick(target)
    \/ \E target \in AllTargets : DoubleClick(target)
    \/ \E target \in AllTargets : SecondClickElsewhere(target)
    \/ TimerExpire
    \/ OrphanTimerExpire

Spec == Init /\ [][Next]_vars

\* ------------------------------------------------------------------------
\* The App with the model of the end-to-end scenario only
\* ------------------------------------------------------------------------

ScenarioIds ==
    {BomDoc(ScenarioModel).assembly_tree[i].id :
        i \in 1..Len(BomDoc(ScenarioModel).assembly_tree)}

ScenarioTargets == ClickTargets(ScenarioModel)

NextScenario ==
    \/ HandleModelSelect(ScenarioModel)
    \/ \E success \in BOOLEAN : AppBomResponse(ScenarioModel, success)
    \/ \E success \in BOOLEAN : ViewerBomResponse(success)
    \/ SceneLoaded
    \/ SceneFailed
    \/ HandleBackToModels
    \/ HandleResetView
    \/ \E id \in ScenarioIds : TreeNodeClick(id)
    \/ \E id \in ScenarioIds : ToggleExpandedClick(id)
    \/ \E q \in SearchQueries : OnSearchChange(q)
    \/ \E target \in ScenarioTargets : FirstClick(target)
    \/ \E target \in ScenarioTargets : DoubleClick(target)
    \/ \E target \in ScenarioTargets : SecondClickElsewhere(target)
    \/ TimerExpire
    \/ OrphanTimerExpire

SpecScenario == Init /\ [][NextScenario]_vars

\* ------------------------------------------------------------------------
\* The resolver as a function of its inputs
\* ------------------------------------------------------------------------

Bracket12 == <<"B", "r", "a", "c", "k", "e", "t", "-", "1", "2">>

Bracket == <<"B", "r", "a", "c", "k", "e", "t">>

\* clickedObject.name of the hit mesh.
ResolverMeshNames ==
    {Bracket12, <<"2">>, <<"B", "R", "A", "C", "K", "E", "T", "_", "7">>}

\* reference_name and name of the records of bomData.assembly_tree.
ResolverRefs == {NULL, Bracket12, Bracket, <<"A", "2">>}

ResolverNames == {Bracket12, <<"A", "s", "m">>, <<"B", "r", "a", "c", "k">>}

ResolverRecs ==
    {Rec(id, IF id = 1 THEN NoParent ELSE 1, name, ref) :
        id \in 1..MaxRecs, name \in ResolverNames, ref \in ResolverRefs}

\* Record lists of up to MaxRecs records with distinct ids, in any order.
ResolverTrees ==
    UNION {{t \in [1..n -> ResolverRecs] :
               \A i, j \in 1..n : t[i].id = t[j].id => i = j} : n \in 1..MaxRecs}

InitResolver ==
    /\ InitApp
    /\ IdleHighlight
    /\ IdleTree
    /\ IdleCamera
    /\ rIn \in [meshName : ResolverMeshNames, tree : ResolverTrees]
    /\ rOut = NoOutput

\* One scene click resolved: the find loop of handleSingleClick, and the two
\* finds of the single-model viewer, on the same input, and the object each
\* handleSingleClick passes to onPartSelect.
Resolve ==
    /\ ~rOut.done
    /\ LET found == ResolveBom(rIn.tree, rIn.meshName)
           scene == << SceneObject(rIn.meshName, TRUE, 0) >>
           bom == [assembly_tree |-> rIn.tree]
       IN  rOut' = [done |-> TRUE, index |-> found.index,
                    matchMethod |-> found.matchMethod,
                    legacy |-> LegacyResolveBom(rIn.tree, rIn.meshName),
                    part |-> ScenePart(scene, 1, bom),
                    legacyPart |-> LegacyScenePart(scene, 1, bom)]
    /\ UNCHANGED <<appVars, expandedNodes, viewerVars, clickVars,
                   orphanTimers, meshes, rIn, highlightVars, treeVars,
                   cameraVars, searchQuery>>
    /\ deselectedBy' = ""
    /\ lastPath' = NoPath

NextResolver == Resolve

SpecResolver == InitResolver /\ [][NextResolver]_vars

\* ------------------------------------------------------------------------
\* The Model component on its own: one scene, mounted and unmounted, its
\* selectedPart prop changing
\* ------------------------------------------------------------------------

S1 == <<"S", "-", "1">>

S1_1 == <<"S", "-", "1", "_", "1">>

S1_2 == <<"S", "-", "1", "_", "2">>

\* Scenes for the BOM of model mA (records ASSY, Sub/S-1, P): two part meshes;
\* the sub-assembly S-1 exported as two primitives; the sub-assembly exported
\* as a group node S-1 with one mesh below it.
HScenes ==
    { << SceneObject(<<"P">>, TRUE, 8421504), SceneObject(S1, TRUE, 65280) >>,
      << SceneObject(S1_1, TRUE, 65280), SceneObject(S1_2, TRUE, 255) >>,
      << SceneObject(S1, FALSE, 0), SceneObject(S1_1, TRUE, 65280) >> }

HBom == BomDoc("mA")

\* The values the selectedPart prop takes: a record clicked in the tree, or
\* a mesh of the scene clicked with or without the BOM loaded.
HParts(scene) ==
    {TreePart(HBom.assembly_tree[i]) : i \in 1..Len(HBom.assembly_tree)}
        \cup {ScenePart(scene, i, HBom) : i \in SceneMeshes(scene)}
        \cup {ScenePart(scene, i, None) : i \in SceneMeshes(scene)}

AllHParts == UNION {HParts(scene) : scene \in HScenes} \cup {None}

InitHighlight ==
    /\ InitApp
    /\ IdleResolver
    /\ IdleTree
    /\ IdleCamera
    /\ hScene \in HScenes
    /\ hMeshes = LoadedScene(hScene)
    /\ hMounted = FALSE
    /\ hSel = None

\* Model mounts with the scene useGLTF has cached: the setup effect, then the
\* highlight effect with the current prop.
HMount ==
    /\ ~hMounted
    /\ hMounted' = TRUE
    /\ hMeshes' = HighlightEffect(hScene, SetupMaterials(hScene, hMeshes), hSel)
    /\ UNCHANGED <<appVars, expandedNodes, viewerVars, clickVars, orphanTimers,
                   meshes, resolverVars, treeVars, cameraVars, hScene, hSel,
                   historyVars, searchQuery>>

\* The selectedPart prop changes; a mounted Model runs the highlight effect.
HSelect(part) ==
    /\ part \in HParts(hScene) \cup {None}
    /\ part # hSel
    /\ hSel' = part
    /\ hMeshes' = IF hMounted THEN HighlightEffect(hScene, hMeshes, part)
                  ELSE hMeshes
    /\ UNCHANGED <<appVars, expandedNodes, viewerVars, clickVars, orphanTimers,
                   meshes, resolverVars, treeVars, cameraVars, hScene, hMounted,
                   historyVars, searchQuery>>

\* Back to the model list: the viewer unmounts and the selection is cleared;
\* no effect of the unmounted Model runs, the cached scene stays as it is.
HUnmount ==
    /\ hMounted
    /\ hMounted' = FALSE
    /\ hSel' = None
    /\ UNCHANGED <<appVars, expandedNodes, viewerVars, clickVars, orphanTimers,
                   meshes, resolverVars, treeVars, cameraVars, hScene, hMeshes,
                   historyVars, searchQuery>>

NextHighlight ==
    \/ HMount
    \/ \E part \in AllHParts : HSelect(part)
    \/ HUnmount

SpecHighlight == InitHighlight /\ [][NextHighlight]_vars

\* ------------------------------------------------------------------------
\* The tree views on their own: buildTree and the search filter applied to
\* a record list and a query
\* ------------------------------------------------------------------------

MaxTreeRecs == 3

\* The ids of the records, by position in the list.
TreeIds == { <<1, 2, 12>>, <<2, 1, 12>> }

\* parent_id values: null, an id (of a record of the list or not), or
\* undefined for a record without the field.
TreeParents == {NoParent, 1, 2, 12, Undefined}

\* name and reference_name of a record.
TreeLabels ==
    { [name |-> <<"A", "S", "S", "Y">>, reference_name |-> NULL],
      [name |-> <<"M", "o", "t", "o", "r">>, reference_name |-> NULL],
      [name |-> <<"C", "a", "p">>, reference_name |-> <<"M", "-", "1", "2">>] }

\* searchQuery values.
TreeQueries ==
    { <<>>, <<"m", "o", "t", "o", "r">>, <<"M", "O", "T">>, <<"1", "2">>,
      <<"1">>, <<"x">> }

\* Record lists of unique ids, at most MaxTreeRecs long.
TreeLists ==
    UNION { { [i \in 1..n |-> Rec(ids[i], parents[i], labels[i].name,
                                  labels[i].reference_name)] :
                ids \in TreeIds, parents \in [1..n -> TreeParents],
                labels \in [1..n -> TreeLabels] } : n \in 1..MaxTreeRecs }

InitTree ==
    /\ InitApp
    /\ IdleResolver
    /\ IdleHighlight
    /\ IdleCamera
    /\ tIn \in [tree : TreeLists, q : TreeQueries]
    /\ tOut = NoTreeOutput

\* The render with a filterNode that writes the filtered children into the
\* node it was given, so that hierarchicalData is the filtered hierarchy
\* afterwards.
RenderTreeInPlace ==
    /\ ~tOut.done
    /\ LET hierarchy == HierarchicalData([assembly_tree |-> tIn.tree])
       IN  tOut' = [done |-> TRUE,
                    roots |-> Len(BuildTree(tIn.tree, NoParent)),
                    hierarchy |-> FilteredData(hierarchy, tIn.q),
                    filtered |-> FilteredData(hierarchy, tIn.q),
                    legacyFiltered |-> LegacyFilteredData(hierarchy, tIn.q)]
    /\ UNCHANGED <<appVars, expandedNodes, viewerVars, clickVars,
                   orphanTimers, meshes, resolverVars, highlightVars, tIn,
                   cameraVars, historyVars, searchQuery>>

\* The tree view renders with bomData = {assembly_tree} and searchQuery:
\* the hierarchicalData and filteredData memos of both tree views.
RenderTree ==
    /\ ~tOut.done
    /\ LET hierarchy == HierarchicalData([assembly_tree |-> tIn.tree])
       IN  tOut' = [done |-> TRUE,
                    roots |-> Len(BuildTree(tIn.tree, NoParent)),
                    hierarchy |-> hierarchy,
                    filtered |-> FilteredData(hierarchy, tIn.q),
                    legacyFiltered |-> LegacyFilteredData(hierarchy, tIn.q)]
    /\ UNCHANGED <<appVars, expandedNodes, viewerVars, clickVars,
                   orphanTimers, meshes, resolverVars, highlightVars, tIn,
                   cameraVars, historyVars, searchQuery>>

NextTree == RenderTree

SpecTree == InitTree /\ [][NextTree]_vars

\* ------------------------------------------------------------------------
\* The camera on its own: selections, renders and frames
\* ------------------------------------------------------------------------

\* The Model is mounted and the setup effect has fitted the camera to the
\* whole scene; nothing is selected.
InitCamera ==
    /\ InitApp
    /\ IdleResolver
    /\ IdleHighlight
    /\ IdleTree
    /\ cam = InitialFit(SceneBox, CameraFov)
    /\ anim = NoAnimation
    /\ animQueue = <<>>
    /\ cSel = 0
    /\ cStep = ""
    /\ focusCount = 0

\* The Model renders with a new selectedPart, which processes the queued
\* setCameraAnimation calls, and its highlight effect runs: a part whose
\* mesh is found calls focusCameraOnMesh, which reads the pose of the camera
\* and queues null and then the new animation.
CSelect(m) ==
    /\ cam # NoCamera
    /\ m \in CameraMeshes \cup {NoMeshFound}
    /\ focusCount < MaxFocus
    /\ cSel' = m
    /\ anim' = ApplyUpdates(anim, animQueue)
    /\ animQueue' =
          IF m = NoMeshFound THEN <<>>
          ELSE << SetTo(NoAnimation),
                  SetTo(FocusAnimation(cam, MeshBox(m), CameraFov)) >>
    /\ focusCount' = IF m = NoMeshFound THEN focusCount ELSE focusCount + 1
    /\ cStep' = "select"
    /\ UNCHANGED cam
    /\ UNCHANGED <<appVars, expandedNodes, viewerVars, clickVars,
                   orphanTimers, meshes, resolverVars, highlightVars,
                   treeVars, historyVars, searchQuery>>

\* A highlight effect that refits the camera to the whole scene when the
\* selection is cleared.
CDeselectRefits ==
    /\ cam # NoCamera
    /\ cSel # 0
    /\ cSel' = 0
    /\ anim' = NoAnimation
    /\ animQueue' = <<>>
    /\ cam' = InitialFit(SceneBox, CameraFov)
    /\ cStep' = "deselect"
    /\ UNCHANGED focusCount
    /\ UNCHANGED <<appVars, expandedNodes, viewerVars, clickVars,
                   orphanTimers, meshes, resolverVars, highlightVars,
                   treeVars, historyVars, searchQuery>>

\* The Model renders with selectedPart = null and its highlight effect runs:
\* it returns after the reset of the materials.
CDeselect ==
    /\ cam # NoCamera
    /\ cSel # 0
    /\ cSel' = 0
    /\ anim' = ApplyUpdates(anim, animQueue)
    /\ animQueue' = <<>>
    /\ cStep' = "deselect"
    /\ UNCHANGED <<cam, focusCount>>
    /\ UNCHANGED <<appVars, expandedNodes, viewerVars, clickVars,
                   orphanTimers, meshes, resolverVars, highlightVars,
                   treeVars, historyVars, searchQuery>>

\* The Model renders because of the queued setCameraAnimation calls.
CRender ==
    /\ animQueue # <<>>
    /\ anim' = ApplyUpdates(anim, animQueue)
    /\ animQueue' = <<>>
    /\ cStep' = "render"
    /\ UNCHANGED <<cam, cSel, focusCount>>
    /\ UNCHANGED <<appVars, expandedNodes, viewerVars, clickVars,
                   orphanTimers, meshes, resolverVars, highlightVars,
                   treeVars, historyVars, searchQuery>>

\* A useFrame callback that advances the animation twice in one frame.
CTickTwice(delta) ==
    /\ IsAnimation(anim)
    /\ Len(animQueue) + 2 <= MaxPending
    /\ LET newProgress == NewProgress(NewProgress(anim.progress, delta),
                                      delta)
           easedProgress == EaseInOutQuad(newProgress)
       IN  /\ cam' = [position |-> LerpVectors(anim.startPosition,
                                               anim.endPosition,
                                               easedProgress),
                      target |-> LerpVectors(anim.startTarget,
                                             anim.endTarget, easedProgress)]
           /\ animQueue' =
                 IF newProgress >= 4
                 THEN animQueue \o <<SetProgress(newProgress),
                                    SetTo(NoAnimation)>>
                 ELSE Append(animQueue, SetProgress(newProgress))
    /\ cStep' = "tick"
    /\ UNCHANGED <<anim, cSel, focusCount>>
    /\ UNCHANGED <<appVars, expandedNodes, viewerVars, clickVars,
                   orphanTimers, meshes, resolverVars, highlightVars,
                   treeVars, historyVars, searchQuery>>

\* A frame: the useFrame callback of the last render runs with the
\* cameraAnimation that render saw. An animation without poses makes
\* lerpVectors throw before anything is written.
CTick(delta) ==
    /\ IsAnimation(anim)
    /\ Len(animQueue) + 2 <= MaxPending
    /\ LET newProgress == NewProgress(anim.progress, delta)
           easedProgress == EaseInOutQuad(newProgress)
       IN  /\ cam' = [position |-> LerpVectors(anim.startPosition,
                                               anim.endPosition,
                                               easedProgress),
                      target |-> LerpVectors(anim.startTarget,
                                             anim.endTarget, easedProgress)]
           /\ animQueue' =
                 IF newProgress >= 4
                 THEN animQueue \o <<SetProgress(newProgress),
                                    SetTo(NoAnimation)>>
                 ELSE Append(animQueue, SetProgress(newProgress))
    /\ cStep' = "tick"
    /\ UNCHANGED <<anim, cSel, focusCount>>
    /\ UNCHANGED <<appVars, expandedNodes, viewerVars, clickVars,
                   orphanTimers, meshes, resolverVars, highlightVars,
                   treeVars, historyVars, searchQuery>>

NextCamera ==
    \/ \E m \in CameraMeshes \cup {NoMeshFound} : CSelect(m)
    \/ CDeselect
    \/ CRender
    \/ \E delta \in FrameDeltas : CTick(delta)

SpecCamera == InitCamera /\ [][NextCamera]_vars

\* The camera with frames that keep coming and renders that are not put off
\* for ever.
SpecCameraLive ==
    /\ SpecCamera
    /\ WF_vars(CRender)
    /\ WF_vars(\E delta \in FrameDeltas : CTick(delta))

\* ------------------------------------------------------------------------
\* The expanded set of the tree view, with search and a camera animation
\* ------------------------------------------------------------------------

\* Model "mA" is open: its BOM has arrived in the App and in the viewer, the
\* scene has loaded, the setup effect has run and fitted the camera.
InitExpansion ==
    /\ deselectedBy = ""
    /\ lastPath = NoPath
    /\ selectedModel = "mA"
    /\ selectedPart = None
    /\ searchQuery = <<>>
    /\ bomData = BomDoc("mA")
    /\ appFetch = [m \in Catalog |-> 0]
    /\ opens = 1
    /\ expandedNodes = {1}
    /\ vBomData = BomDoc("mA")
    /\ vBomError = FALSE
    /\ vFetchPending = FALSE
    /\ sceneReady = TRUE
    /\ loadError = FALSE
    /\ capturedBom = BomDoc("mA")
    /\ capturedSel = None
    /\ clickCount = 0
    /\ lastClickedObject = NoObject
    /\ timerPending = FALSE
    /\ timerTarget = NoObject
    /\ orphanTimers = {}
    /\ meshes = [LoadedScenes EXCEPT
                    !["mA"] = SetupMaterials(SceneOf("mA"), @)]
    /\ IdleResolver
    /\ IdleHighlight
    /\ IdleTree
    /\ cam = InitialFit(SceneBox, CameraFov)
    /\ anim = NoAnimation
    /\ animQueue = <<>>
    /\ cSel = 0
    /\ cStep = ""
    /\ focusCount = 0

NextExpansion ==
    \/ \E id \in AllIds : TreeNodeClick(id)
    \/ \E id \in AllIds : ToggleExpandedClick(id)
    \/ HandleResetView
    \/ \E q \in SearchQueries : OnSearchChange(q)
    \/ CRender
    \/ \E delta \in FrameDeltas : CTick(delta)

SpecExpansion == InitExpansion /\ [][NextExpansion]_vars

\* ------------------------------------------------------------------------
\* Properties
\* ------------------------------------------------------------------------

\* The selection is Selected(X) with X.id = id.
SelectedId(id) == selectedPart # None /\ selectedPart.id = id

\* The scene meshes a click can hit.
HitTargets == AllTargets \ {NoObject}

\* The single-click path runs for a hit on `target`: the debounce timer of
\* the mounted viewer expires, or a second click lands on another object.
SceneSingleClick(target) ==
    \/ TimerExpire /\ timerTarget = target
    \/ SecondClickElsewhere(target)

\* The part the single-click path hands to onPartSelect for that hit.
SceneRequest(target) == SingleClickPart(selectedModel, target, capturedBom)

\* C1 (toggle-off): a select(X) request that arrives while the selection is
\* Selected(X), from a tree-node click or from a scene-mesh click, leaves the
\* selection Idle.
C1_ToggleOff ==
    [][/\ \A id \in AllIds :
            TreeNodeClick(id) /\ SelectedId(id) => selectedPart' = None
       /\ \A target \in HitTargets :
            SceneSingleClick(target) /\ SelectedId(SceneRequest(target).id)
               => selectedPart' = None]_vars

\* C2 (re-target): a select(Y) request that arrives in Idle, or in
\* Selected(X) with another id, yields Selected(Y) in that one step.
C2_Retarget ==
    [][/\ \A id \in AllIds :
            TreeNodeClick(id) /\ ~SelectedId(id)
               => selectedPart' # None /\ selectedPart'.id = id
       /\ \A target \in HitTargets :
            SceneSingleClick(target) /\ ~SelectedId(SceneRequest(target).id)
               => /\ selectedPart' # None
                  /\ selectedPart'.id = SceneRequest(target).id]_vars

\* The strategies of the resolver's contract, in its order: exact
\* reference_name, exact name, exact decimal id, substring on reference_name,
\* substring on name, normalized substring.
ContractStrategy(k, item, meshName) ==
    CASE k = 1 -> item.reference_name = meshName
      [] k = 2 -> item.name = meshName
      [] k = 3 -> IdToString(item.id) = meshName
      [] k = 4 -> /\ Truthy(item.reference_name)
                  /\ \/ Includes(item.reference_name, meshName)
                     \/ Includes(meshName, item.reference_name)
      [] k = 5 -> /\ Truthy(item.name)
                  /\ \/ Includes(item.name, meshName)
                     \/ Includes(meshName, item.name)
      [] k = 6 -> \E field \in {item.reference_name, item.name} :
                     /\ Truthy(field)
                     /\ \/ Includes(Clean(field), Clean(meshName))
                        \/ Includes(Clean(meshName), Clean(field))

\* The lowest-numbered contract strategy some record of the list satisfies,
\* 0 when none does.
LowestStrategy(tree, meshName) ==
    FirstIndex({k \in 1..6 :
                   \E i \in 1..Len(tree) :
                       ContractStrategy(k, tree[i], meshName)})

\* C3 (resolver precedence): whenever some record satisfies a strategy, the
\* record the resolver returns (the viewer's resolver, and the single-model
\* viewer's) satisfies the lowest-numbered strategy that any record
\* satisfies; so an exact reference_name match wins over a substring match
\* that comes first in the list.
C3_ResolverPrecedence ==
    rOut.done =>
        LET tree == rIn.tree
            k == LowestStrategy(tree, rIn.meshName)
        IN  k # 0 =>
               /\ rOut.index # 0
               /\ ContractStrategy(k, tree[rOut.index], rIn.meshName)
               /\ rOut.legacy # 0
               /\ ContractStrategy(k, tree[rOut.legacy], rIn.meshName)

\* C4 (write-once highlight cache): once a mesh has a cached original, the
\* cache holds the material, color, emissive and intensity the mesh was
\* first loaded with, and never a highlight material.
C4_WriteOnceCache ==
    \A m \in Models : \A i \in MeshIdx(m) :
        LET ud == meshes[m][i].userData
        IN  ud.originalMaterial.obj # "none" =>
               /\ ud.originalMaterial = SceneOf(m)[i].material
               /\ ud.originalColor = SceneOf(m)[i].material.color
               /\ ud.originalEmissive = SceneOf(m)[i].material.emissive
               /\ ud.originalEmissiveIntensity =
                     SceneOf(m)[i].material.emissiveIntensity

\* C5 (no ordering dependency between loads): once the scene has loaded and
\* the BOM fetches have completed, in whichever order, a scene click on a
\* mesh whose name is some record's reference_name selects that record, not
\* a placeholder.
C5_NoOrderingDependency ==
    [][\A target \in HitTargets :
          (/\ SceneSingleClick(target)
           /\ sceneReady
           /\ bomData = BomDoc(selectedModel)
           /\ vBomData = BomDoc(selectedModel)
           /\ \E i \in 1..Len(vBomData.assembly_tree) :
                 vBomData.assembly_tree[i].reference_name
                    = SceneOf(selectedModel)[target].name)
          => /\ selectedPart' # None
             /\ ~selectedPart'.isFallback
             /\ selectedPart'.reference_name
                   = SceneOf(selectedModel)[target].name]_vars

\* C6 (double-click deselect): a second click on the target of the first
\* within the debounce window cancels the pending timer, and if that target
\* is the currently selected part the selection becomes Idle.
C6_DoubleClickDeselect ==
    [][\A target \in AllTargets :
          DoubleClick(target)
          => /\ ~timerPending'
             /\ orphanTimers' = orphanTimers
             /\ (/\ target # NoObject
                 /\ IsCurrentlySelected(selectedPart,
                                        SceneOf(selectedModel)[target].name))
                => selectedPart' = None]_vars

\* C7 (timer cleared on teardown): a debounce timer armed in a viewer that
\* has been torn down never changes the selection.
C7_TimerClearedOnTeardown ==
    [][OrphanTimerExpire => selectedPart' = selectedPart]_vars

\* C8 (model switch resets selection): every step that changes the selected
\* model (handleModelSelect, handleBackToModels) ends with no selection.
C8_ModelSwitchResets ==
    [][selectedModel' # selectedModel => selectedPart' = None]_vars

\* C8, reached: the user went back to the model selector while a part was
\* selected (its mesh still carries the highlight material in the cached
\* scene), and the selection is null.
C8_Reached ==
    /\ selectedModel = NoModel
    /\ selectedPart = None
    /\ \E m \in Models : \E i \in MeshIdx(m) :
          meshes[m][i].material.obj = "highlight"

\* C9 (BOM data never stale): while a model is selected, the BOM document
\* of the App is absent or is the document of that model.
C9_BomNeverStale ==
    (selectedModel # NoModel /\ bomData # None)
       => bomData.filename = selectedModel

\* C10 (ancestor expansion): after a step into Selected(part), part.id being
\* the id of a record of the model's BOM, every proper ancestor of that
\* record is in the expanded set.
C10_AncestorExpansion ==
    [][(/\ selectedPart' # None
        /\ selectedPart' # selectedPart
        /\ selectedModel' # NoModel
        /\ bomData' = BomDoc(selectedModel')
        /\ IndexOfId(bomData'.assembly_tree, selectedPart'.id) # 0)
       => ExpandParents(bomData'.assembly_tree, selectedPart'.id)
             \subseteq expandedNodes']_vars

\* The meshes whose active material is a highlight material.
Highlighted(scene, ms) ==
    {i \in SceneMeshes(scene) : ms[i].material.obj = "highlight"}

\* The mesh looks as the loader delivered it.
LooksOriginal(scene, ms, i) == ms[i].material = scene[i].material

\* The part satisfies, for that mesh name, one of the contract's exact or
\* substring strategies (1 to 5), which the highlight effect has too.
PartMatchesMesh(part, meshName) ==
    \E k \in 1..5 :
        /\ k = 3 => part.id > 0
        /\ ContractStrategy(k, part, meshName)

\* C11 (highlight application): in the Model component, whenever the
\* selection is a part that some mesh of the scene satisfies a matching
\* strategy for, exactly one mesh carries the highlight material, that mesh
\* matches the part, and every other mesh looks as it was loaded; so two
\* meshes are never highlighted at once.
C11_HighlightApplication ==
    (/\ hMounted
     /\ hSel # None
     /\ \E i \in SceneMeshes(hScene) : PartMatchesMesh(hSel, hScene[i].name))
        => \E i \in SceneMeshes(hScene) :
              /\ Highlighted(hScene, hMeshes) = {i}
              /\ PartMatchesMesh(hSel, hScene[i].name)
              /\ \A j \in SceneMeshes(hScene) \ {i} :
                     LooksOriginal(hScene, hMeshes, j)

\* C12 (idle means unhighlighted): whenever a model is open, its scene has
\* loaded so that the highlight effect has run for the current selection,
\* and nothing is selected, every mesh of the scene looks as it was loaded
\* and none carries a highlight material.
C12_IdleUnhighlighted ==
    (/\ selectedModel # NoModel
     /\ sceneReady
     /\ selectedPart = None)
        => \A i \in MeshIdx(selectedModel) :
              /\ LooksOriginal(SceneOf(selectedModel), meshes[selectedModel], i)
              /\ i \notin Highlighted(SceneOf(selectedModel),
                                      meshes[selectedModel])

\* The color, emissive and emissiveIntensity of a material.
Appearance(material) ==
    <<material.color, material.emissive, material.emissiveIntensity>>

\* C13 (highlight round-trip): when a mesh of the open, loaded scene carries
\* the highlight and the selection is then cleared in the viewer, the color,
\* emissive and emissive intensity of that mesh are again the values it had
\* when the scene was loaded.
C13_HighlightRoundTrip ==
    [][(/\ sceneReady /\ sceneReady'
        /\ selectedModel' = selectedModel
        /\ selectedPart # None
        /\ selectedPart' = None)
          => \A i \in Highlighted(SceneOf(selectedModel), meshes[selectedModel]) :
                Appearance(meshes'[selectedModel][i].material)
                    = Appearance(SceneOf(selectedModel)[i].material)]_vars

\* C14 (deselect): Reset View ends with no selection, whatever the state,
\* and so does a click on the canvas that hits empty space, whether it is
\* handled as a single click when the timer fires, as the second click of a
\* pair, or as a double click.
C14_Deselect ==
    [][(\/ HandleResetView
        \/ DoubleClick(NoObject)
        \/ SecondClickElsewhere(NoObject)
        \/ (TimerExpire /\ timerTarget = NoObject))
          => selectedPart' = None]_vars

\* C14, reached: a part was selected, a click on empty space has just been
\* handled, and nothing is selected.
C14_Reached ==
    /\ selectedModel # NoModel
    /\ deselectedBy = "empty"
    /\ selectedPart = None

\* The positions of the records without a parent.
Parentless(tree) == {i \in 1..Len(tree) : tree[i].parent_id = NoParent}

\* Following parent_id from record i reaches record r in at most fuel steps.
RECURSIVE ChainReaches(_, _, _, _)
ChainReaches(tree, i, r, fuel) ==
    IF i = r THEN TRUE
    ELSE IF fuel = 0 THEN FALSE
    ELSE LET up == {j \in 1..Len(tree) : tree[j].id = tree[i].parent_id}
         IN  \E j \in up : ChainReaches(tree, j, r, fuel - 1)

\* Unique ids, exactly one record without a parent, and the parent chain of
\* every record reaches it.
WellFormed(tree) ==
    /\ \A i, j \in 1..Len(tree) : tree[i].id = tree[j].id => i = j
    /\ Cardinality(Parentless(tree)) = 1
    /\ \A i \in 1..Len(tree) :
          \A r \in Parentless(tree) : ChainReaches(tree, i, r, Len(tree))

\* The records of a hierarchy, in depth-first order, one entry per node.
RECURSIVE NodeRecords(_), ChildrenRecords(_, _)
NodeRecords(node) ==
    <<Rec(node.id, node.parent_id, node.name, node.reference_name)>>
        \o ChildrenRecords(node.children, 1)

ChildrenRecords(children, from) ==
    IF from > Len(children) THEN <<>>
    ELSE NodeRecords(children[from]) \o ChildrenRecords(children, from + 1)

\* The records of a hierarchy or of null.
HierarchyRecords(hierarchy) ==
    IF hierarchy = NoNode THEN <<>> ELSE NodeRecords(hierarchy)

\* How many nodes of the hierarchy carry the record.
Occurrences(hierarchy, item) ==
    LET recs == HierarchyRecords(hierarchy)
    IN  Cardinality({k \in 1..Len(recs) : recs[k] = item})

\* C15 (tree builder, well-formed input): for a record list with unique ids,
\* exactly one record without a parent and every parent chain reaching it,
\* buildTree(null) has exactly one element, the hierarchy's root is that
\* record, and the hierarchy has as many nodes as the list has records, each
\* record on exactly one node.
C15_WellFormedTree ==
    (tOut.done /\ WellFormed(tIn.tree))
        => /\ tOut.roots = 1
           /\ tOut.hierarchy # NoNode
           /\ \A r \in Parentless(tIn.tree) : tOut.hierarchy.id = tIn.tree[r].id
           /\ Len(HierarchyRecords(tOut.hierarchy)) = Len(tIn.tree)
           /\ \A i \in 1..Len(tIn.tree) :
                 Occurrences(tOut.hierarchy, tIn.tree[i]) = 1

\* C15, reached: a well-formed list of three records, whose root is not the
\* first record and which is two levels deep, has been built.
C15_Reached ==
    /\ tOut.done
    /\ WellFormed(tIn.tree)
    /\ Len(tIn.tree) = MaxTreeRecs
    /\ 1 \notin Parentless(tIn.tree)
    /\ \E i \in 1..Len(tIn.tree) :
          /\ i \notin Parentless(tIn.tree)
          /\ \A r \in Parentless(tIn.tree) :
                tIn.tree[i].parent_id # tIn.tree[r].id

\* C16 (tree builder, malformed hierarchy): with more than one record
\* without a parent the hierarchy is rooted at the first of them in list
\* order and holds exactly the records whose parent chain reaches it, once
\* each; with no record without a parent the hierarchy is null.
C16_MalformedTree ==
    tOut.done
        => /\ Parentless(tIn.tree) = {} => tOut.hierarchy = NoNode
           /\ Cardinality(Parentless(tIn.tree)) > 1
                => LET first == FirstIndex(Parentless(tIn.tree))
                   IN  /\ tOut.hierarchy # NoNode
                       /\ tOut.hierarchy.id = tIn.tree[first].id
                       /\ \A i \in 1..Len(tIn.tree) :
                             Occurrences(tOut.hierarchy, tIn.tree[i])
                                 = IF ChainReaches(tIn.tree, i, first,
                                                   Len(tIn.tree))
                                   THEN 1 ELSE 0

\* C16, reached: a list with two records without a parent has been built;
\* the first of them has a child, the other one is left out.
C16_Reached ==
    /\ tOut.done
    /\ Cardinality(Parentless(tIn.tree)) = 2
    /\ Len(tIn.tree) = MaxTreeRecs
    /\ Len(HierarchyRecords(tOut.hierarchy)) = 2

\* The contract's match predicate: the query is a case-insensitive substring
\* of reference_name or of name, or a substring of the decimal id.
QueryMatches(item, q) ==
    \/ /\ Truthy(item.reference_name)
       /\ Includes(ToLowerCase(item.reference_name), ToLowerCase(q))
    \/ /\ Truthy(item.name)
       /\ Includes(ToLowerCase(item.name), ToLowerCase(q))
    \/ Includes(IdToString(item.id), q)

\* The ids of the nodes of the hierarchy built from the list that match the
\* query or have a descendant that does.
KeptIds(tree, hierarchy, q) ==
    LET recs == HierarchyRecords(hierarchy)
        InTree == {i \in 1..Len(tree) : \E k \in 1..Len(recs) : recs[k] = tree[i]}
    IN  {tree[i].id : i \in {a \in InTree :
                               \E d \in InTree :
                                   /\ QueryMatches(tree[d], q)
                                   /\ ChainReaches(tree, d, a, Len(tree))}}

\* The hierarchy with the nodes outside the given ids cut away.
RECURSIVE RestrictNode(_, _), RestrictChildren(_, _, _)
RestrictNode(node, ids) ==
    [node EXCEPT !.children = RestrictChildren(node.children, ids, 1)]

RestrictChildren(children, ids, from) ==
    IF from > Len(children) THEN <<>>
    ELSE IF children[from].id \in ids
    THEN <<RestrictNode(children[from], ids)>>
             \o RestrictChildren(children, ids, from + 1)
    ELSE RestrictChildren(children, ids, from + 1)

\* What the contract's filter returns for a hierarchy and a non-empty query.
ExpectedFilter(tree, hierarchy, q) ==
    LET ids == KeptIds(tree, hierarchy, q)
    IN  IF hierarchy.id \in ids THEN RestrictNode(hierarchy, ids) ELSE NoNode

\* C17 (search filter, ancestor preservation): for a hierarchy and a
\* non-empty query, the filtered hierarchy of either tree view is the
\* hierarchy cut down to exactly the nodes that match or have a matching
\* descendant, so a matching node keeps every ancestor up to the root.
C17_AncestorPreservation ==
    (tOut.done /\ tIn.q # <<>> /\ tOut.hierarchy # NoNode)
        => /\ tOut.filtered = ExpectedFilter(tIn.tree, tOut.hierarchy, tIn.q)
           /\ tOut.legacyFiltered
                 = ExpectedFilter(tIn.tree, tOut.hierarchy, tIn.q)

\* The records of the list that are on a node of the hierarchy.
RecordsIn(tree, hierarchy) ==
    {i \in 1..Len(tree) : Occurrences(hierarchy, tree[i]) > 0}

\* The records on the childless nodes of the hierarchy built from the list.
Leaves(tree, hierarchy) ==
    {i \in RecordsIn(tree, hierarchy) :
        \A j \in 1..Len(tree) : tree[j].parent_id # tree[i].id}

\* C18 (search filter, match predicate): for a non-empty query, a childless
\* node survives the filter of either tree view exactly when the query is a
\* case-insensitive substring of its reference_name or of its name, or a
\* substring of its decimal id.
C18_MatchPredicate ==
    (tOut.done /\ tIn.q # <<>>)
        => \A i \in Leaves(tIn.tree, tOut.hierarchy) :
              /\ i \in RecordsIn(tIn.tree, tOut.filtered)
                    <=> QueryMatches(tIn.tree[i], tIn.q)
              /\ i \in RecordsIn(tIn.tree, tOut.legacyFiltered)
                    <=> QueryMatches(tIn.tree[i], tIn.q)

\* C19 (search filter, boundary results): with an empty query the filtered
\* hierarchy of DynamicBOMTreeView is the hierarchy itself; with a non-empty
\* query that no node of the hierarchy matches it is null.
C19_FilterBoundary ==
    tOut.done
        => /\ tIn.q = <<>> => tOut.filtered = tOut.hierarchy
           /\ (/\ tIn.q # <<>>
               /\ \A i \in RecordsIn(tIn.tree, tOut.hierarchy) :
                     ~QueryMatches(tIn.tree[i], tIn.q))
                 => tOut.filtered = NoNode

\* C19, reached: a hierarchy of three nodes has been filtered with the empty
\* query.
C19_Reached ==
    /\ tOut.done
    /\ tIn.q = <<>>
    /\ Len(HierarchyRecords(tOut.hierarchy)) = MaxTreeRecs
    /\ tOut.filtered # NoNode

\* The objects of the scene that satisfy strategy k of the highlight effect
\* for the part: 1 meshName, 2 reference_name, 3 name, 4 id string,
\* 5 partial reference_name, 6 partial name.
EffectCandidates(scene, part, k) ==
    LET Name(i) == scene[i].name
        Partial(i, field) ==
            /\ Truthy(Name(i))
            /\ Includes(Name(i), field) \/ Includes(field, Name(i))
    IN  CASE k = 1 -> {i \in SceneObjects(scene) :
                          Truthy(part.meshName) /\ Name(i) = part.meshName}
          [] k = 2 -> {i \in SceneMeshes(scene) :
                          Truthy(part.reference_name)
                              /\ Name(i) = part.reference_name}
          [] k = 3 -> {i \in SceneMeshes(scene) :
                          Truthy(part.name) /\ Name(i) = part.name}
          [] k = 4 -> {i \in SceneMeshes(scene) : Name(i) = PartIdString(part)}
          [] k = 5 -> {i \in SceneMeshes(scene) :
                          Truthy(part.reference_name)
                              /\ Partial(i, part.reference_name)}
          [] k = 6 -> {i \in SceneMeshes(scene) :
                          Truthy(part.name) /\ Partial(i, part.name)}

\* The first strategy of the highlight effect that has a candidate, 0 when
\* none has.
WinningEffectStrategy(scene, part) ==
    FirstIndex({k \in 1..6 : EffectCandidates(scene, part, k) # {}})

\* No snapshot of the scene was taken from a highlighted mesh.
CleanSnapshots(scene, ms) ==
    \A i \in SceneMeshes(scene) : ms[i].userData.originalMaterial.obj = "original"

\* C20 (tie-break), selected BOM record to scene mesh: in a Model whose
\* snapshots are clean, the mesh highlighted for the selection is the first
\* object in traversal order among those that satisfy the winning strategy.
C20_TieBreak ==
    (hMounted /\ hSel # None /\ CleanSnapshots(hScene, hMeshes))
        => \A i \in Highlighted(hScene, hMeshes) :
              i = FirstIndex(EffectCandidates(hScene, hSel,
                                 WinningEffectStrategy(hScene, hSel)))

\* C21 (strategy 3, id match): a clicked mesh whose name is the decimal
\* string of a record's id, and is no record's reference_name or name,
\* resolves to that record.
C21_IdMatch ==
    rOut.done
        => \A i \in 1..Len(rIn.tree) :
              (/\ rIn.meshName = IdToString(rIn.tree[i].id)
               /\ \A j \in 1..Len(rIn.tree) :
                     /\ rIn.tree[j].reference_name # rIn.meshName
                     /\ rIn.tree[j].name # rIn.meshName)
                 => rOut.index = i

\* The mesh name and the field, suffix-stripped and lower-cased, are equal
\* or one contains the other.
NormalizedMatch(field, meshName) ==
    /\ Truthy(field)
    /\ Truthy(meshName)
    /\ \/ Includes(Clean(field), Clean(meshName))
       \/ Includes(Clean(meshName), Clean(field))

\* C22 (strategy 6, normalized match): when no record satisfies one of the
\* contract's strategies 1 to 5 for the clicked mesh name and some record's
\* reference_name or name matches it after normalization, the resolver
\* returns a record that matches it after normalization.
C22_NormalizedMatch ==
    (/\ rOut.done
     /\ \A i \in 1..Len(rIn.tree), k \in 1..5 :
           ~ContractStrategy(k, rIn.tree[i], rIn.meshName)
     /\ \E i \in 1..Len(rIn.tree) :
           \/ NormalizedMatch(rIn.tree[i].reference_name, rIn.meshName)
           \/ NormalizedMatch(rIn.tree[i].name, rIn.meshName))
        => /\ rOut.index # 0
           /\ \/ NormalizedMatch(rIn.tree[rOut.index].reference_name,
                                 rIn.meshName)
              \/ NormalizedMatch(rIn.tree[rOut.index].name, rIn.meshName)

\* The object is a placeholder for the mesh: isFallback is true and meshName
\* is the name of the mesh.
IsPlaceholder(part, meshName) ==
    /\ part # None
    /\ "isFallback" \in DOMAIN part
    /\ part.isFallback = TRUE
    /\ part.meshName = meshName

\* C23 (no-match fallback): when no record satisfies any strategy for the
\* clicked mesh, the object either viewer hands to the selection is a
\* placeholder with isFallback = true and the mesh's name as meshName.
C23_NoMatchFallback ==
    (/\ rOut.done
     /\ \A i \in 1..Len(rIn.tree), k \in 1..6 :
           ~ContractStrategy(k, rIn.tree[i], rIn.meshName))
        => /\ IsPlaceholder(rOut.part, rIn.meshName)
           /\ IsPlaceholder(rOut.legacyPart, rIn.meshName)

\* The single-click select path runs for a hit on scene object target: the
\* timer of the first click fires, or a second click lands on it.
SingleClickOn(target) ==
    \/ TimerExpire /\ timerTarget = target
    \/ SecondClickElsewhere(target)

\* C24 (end-to-end scenario): with the scenario's BOM loaded in the tree
\* view and in the viewer, its scene loaded and nothing selected, a single
\* click on mesh "Shaft-01" (object 1) selects record 2, found by
\* reference_name_exact, leaves node 1 expanded, highlights mesh "Shaft-01"
\* and leaves mesh "Shaft-02" (object 2) as loaded.
C24_EndToEnd ==
    [][(/\ selectedModel = ScenarioModel
        /\ bomData = BomDoc(ScenarioModel)
        /\ vBomData = BomDoc(ScenarioModel)
        /\ sceneReady
        /\ selectedPart = None
        /\ SingleClickOn(1))
          => /\ ResolveBom(BomDoc(ScenarioModel).assembly_tree, Shaft01)
                   = [index |-> 2, matchMethod |-> "reference_name_exact"]
             /\ selectedPart' # None
             /\ selectedPart'.id = 2
             /\ 1 \in expandedNodes'
             /\ Highlighted(SceneOf(ScenarioModel), meshes'[ScenarioModel])
                   = {1}
             /\ LooksOriginal(SceneOf(ScenarioModel),
                              meshes'[ScenarioModel], 2)]_vars

\* C25: the single-click path. When the timer of the mounted viewer expires,
\* handleSingleClick runs once, for the hit the first click recorded; when a
\* second click lands on another hit inside the window, the timer is
\* cancelled and handleSingleClick runs once, for the new hit. Either way
\* the selection handler receives the part of that hit, and afterwards the
\* debouncer is idle: no click counted, no timer, no recorded hit.
DebouncerIdle ==
    /\ clickCount = 0
    /\ ~timerPending
    /\ timerTarget = NoObject
    /\ lastClickedObject = NoObject

SingleClickSelects(target) ==
    /\ lastPath' = RanPath("single", target)
    /\ selectedPart' = HandlePartSelect(capturedSel,
                           SingleClickPart(selectedModel, target, capturedBom))
    /\ DebouncerIdle'

C25_SingleClickPath ==
    [][ /\ TimerExpire => SingleClickSelects(lastClickedObject)
        /\ \A target \in AllTargets :
               SecondClickElsewhere(target) =>
                   /\ timerPending
                   /\ SingleClickSelects(target)
      ]_vars

\* A second click on another mesh has just run the single-click path for that
\* mesh, which is now the selection, and the debouncer is idle.
C25_Reached ==
    /\ selectedModel = ScenarioModel
    /\ lastPath = RanPath("single", 2)
    /\ selectedPart # None
    /\ selectedPart.meshName = Shaft02
    /\ DebouncerIdle

\* C26: one debounce timer at most. The viewer holds a pending timer exactly
\* when its click count is 1, and that timer is the one of the recorded hit;
\* a second click, on the same hit or on another, cancels the timer of the
\* click it consumes, and only a pending timer ever expires.
C26_OneTimer ==
    [][ /\ timerPending' <=> clickCount' = 1
        /\ timerPending' => timerTarget' = lastClickedObject'
        /\ \A target \in AllTargets :
               DoubleClick(target) \/ SecondClickElsewhere(target) =>
                   /\ timerPending
                   /\ ~timerPending'
        /\ TimerExpire => timerPending /\ clickCount = 1
      ]_vars

\* A double click has just consumed the first click: its timer is gone.
C26_Reached ==
    /\ lastPath.path = "double"
    /\ lastPath.target # NoObject
    /\ clickCount = 0
    /\ ~timerPending

\* The cameraAnimation the next render will see.
PendingAnimation == ApplyUpdates(anim, animQueue)

\* An animation is in flight: started, and not yet at progress 1.
InFlight == IsAnimation(PendingAnimation)

\* C27: animation cancellation. When a selection that resolves to a mesh
\* arrives while an animation is in flight, a fresh animation replaces it:
\* progress 0, from the pose the camera has at that moment, to the pose that
\* frames the new mesh. From then on a frame moves the camera only along the
\* animation of the mesh that is selected, and a frame changes nothing of
\* the animation to come but the progress it has itself computed from it.
C27_AnimationCancellation ==
    [][ /\ \A m \in CameraMeshes :
               CSelect(m) /\ InFlight =>
                   PendingAnimation' =
                       [startPosition |-> cam.position,
                        endPosition |-> FocusPosition(MeshBox(m), CameraFov),
                        startTarget |-> cam.target,
                        endTarget |-> GetCenter(MeshBox(m)),
                        progress |-> 0]
        /\ \A delta \in FrameDeltas :
               CTick(delta) /\ cSel \in CameraMeshes =>
                   /\ anim.endTarget = GetCenter(MeshBox(cSel))
                   /\ InFlight =>
                         /\ anim.startPosition = PendingAnimation.startPosition
                         /\ anim.endPosition = PendingAnimation.endPosition
                         /\ PendingAnimation' \in
                               {NoAnimation,
                                [PendingAnimation EXCEPT !.progress =
                                    NewProgress(PendingAnimation.progress,
                                                delta)]}
      ]_vars

\* C28: the framing distance of the scenario. Selecting the mesh whose
\* bounding box has size (10, 10, 10), with a vertical field of view of 60
\* degrees, asks for a camera position 25 scene units from the centre of the
\* box along the framing direction.
C28_FramingDistance ==
    [][ \A m \in CameraMeshes :
            /\ CSelect(m)
            /\ GetSize(MeshBox(m)) = Lengths(10, 10, 10)
            /\ CameraFov = 60
            => PendingAnimation'.endPosition =
                   VAdd(GetCenter(MeshBox(m)),
                        DirectionTimes(25 * UnitsPerLength))
      ]_vars

\* C30: Idle leaves the camera alone. The reaction to a cleared selection
\* asks for no framing: the camera position, the look-at target and the
\* animation to come are what they were before it.
C30_IdleLeavesCamera ==
    [][ CDeselect =>
            /\ cam' = cam
            /\ PendingAnimation' = PendingAnimation
      ]_vars

\* The selection has just been cleared while an animation was in flight, and
\* the camera is no longer where the setup effect put it.
C30_Reached ==
    /\ cStep = "deselect"
    /\ cSel = 0
    /\ InFlight
    /\ cam # InitialFit(SceneBox, CameraFov)

\* C29: the expanded set. A change of the selection only adds ids to the
\* expanded set. An id leaves the set only when the user toggles that node,
\* and a collapsed node comes back only when the user toggles it or when the
\* auto-expansion for a new selection adds it; a search change, a
\* deselection and a camera frame leave the set as it is.
C29_ExpansionMonotone ==
    [][ /\ selectedPart' # selectedPart => expandedNodes \subseteq expandedNodes'
        /\ \A id \in AllIds :
               id \in expandedNodes /\ id \notin expandedNodes'
                   => ToggleExpandedClick(id)
        /\ \A id \in AllIds :
               id \notin expandedNodes /\ id \in expandedNodes'
                   => \/ ToggleExpandedClick(id)
                      \/ /\ selectedPart' # None
                         /\ selectedPart' # selectedPart
                         /\ id \in AutoExpand(expandedNodes, selectedPart',
                                              bomData)
        /\ \/ \E q \in SearchQueries : OnSearchChange(q)
           \/ selectedPart # None /\ selectedPart' = None
           \/ \E delta \in FrameDeltas : CTick(delta)
           => expandedNodes' = expandedNodes
      ]_vars

\* The root, expanded from the start, has been collapsed by the user after
\* node 2 was expanded, and it is still collapsed after a search, a reset of
\* the selection and a camera frame.
C29_Reached ==
    /\ 2 \in expandedNodes
    /\ 1 \notin expandedNodes
    /\ searchQuery # <<>>
    /\ selectedPart = None
    /\ deselectedBy = "reset"
    /\ cStep = "tick"

\* C31: the effect of a frame. A frame of the camera animation advances it
\* once, by the elapsed time of that frame: it writes the camera position
\* and the look-at target, and asks for one update of the progress (and for
\* the animation to be cleared when the progress has reached 1). The
\* selection, the expanded set, the BOM data and the active and cached
\* materials of every mesh are what they were.
C31_FrameEffect ==
    [][ \A delta \in FrameDeltas :
            CTick(delta) =>
                /\ selectedPart' = selectedPart
                /\ expandedNodes' = expandedNodes
                /\ bomData' = bomData
                /\ meshes' = meshes
                /\ anim' = anim
                /\ LET p == NewProgress(anim.progress, delta)
                   IN  /\ p <= 4
                       /\ animQueue' =
                             animQueue \o
                               (IF p >= 4
                                THEN <<SetProgress(p), SetTo(NoAnimation)>>
                                ELSE <<SetProgress(p)>>)
      ]_vars

\* A frame has just run while a part is selected and highlighted and node 2
\* of the tree is expanded.
C31_Reached ==
    /\ cStep = "tick"
    /\ selectedPart # None
    /\ 2 \in expandedNodes
    /\ Highlighted(SceneOf("mA"), meshes["mA"]) # {}
    /\ cam # InitialFit(SceneBox, CameraFov)

\* C32: scene load failure. Once the load of the scene has failed the viewer
\* shows its error state: no click listener is installed and no timer is
\* armed. Until the model is closed, no step alters a mesh material or the
\* camera pose, and the selection changes only through the tree view or the
\* reset control, never through a click on the scene.
C32_SceneLoadFailure ==
    [][ loadError /\ loadError' =>
            /\ ~sceneReady' /\ clickCount' = 0 /\ ~timerPending'
            /\ meshes' = meshes
            /\ cam' = cam
            /\ selectedPart' # selectedPart =>
                  \/ \E id \in AllIds : TreeNodeClick(id)
                  \/ HandleResetView
      ]_vars

\* C33: BOM load failure. When the BOM fetch of the viewer has failed the
\* warning is set and the scene still loads and takes clicks; a single
\* click on a mesh hands the selection a placeholder record (isFallback = true) for
\* that mesh, which becomes the selection, unless it was the selection
\* already and the click toggles it off.
C33_BomLoadFailure ==
    [][ vBomError =>
          \A target \in HitTargets :
             SingleClickOn(target) =>
                LET placeholder ==
                        ScenePart(SceneOf(selectedModel), target, vBomData)
                IN  /\ IsPlaceholder(placeholder,
                                     SceneOf(selectedModel)[target].name)
                    /\ \/ selectedPart' = placeholder
                       \/ /\ selectedPart # None
                          /\ selectedPart.id = placeholder.id
                          /\ selectedPart' = None
      ]_vars

\* The progress of the animation to come, in quarters; 0 when there is none.
PendingProgress ==
    IF PendingAnimation = NoAnimation THEN 0 ELSE PendingAnimation.progress

\* The animation towards mesh m has ended: the camera is at the pose
\* focusCameraOnMesh asked for and cameraAnimation is null.
AnimationDone(m) ==
    /\ cam = [position |-> FocusPosition(MeshBox(m), CameraFov),
              target |-> GetCenter(MeshBox(m))]
    /\ anim = NoAnimation
    /\ animQueue = <<>>

\* C34: the animation completes. While frames keep coming, the progress of
\* a started animation never decreases and never exceeds 1, and unless the
\* selection changes again the camera position and the look-at target reach
\* the end pose of the animation and cameraAnimation becomes null.
C34_AnimationCompletes ==
    /\ [][ \A delta \in FrameDeltas :
              CTick(delta) /\ InFlight /\ InFlight' =>
                  /\ PendingProgress' >= PendingProgress
                  /\ PendingProgress' <= 4 ]_vars
    /\ \A m \in CameraMeshes :
          (cSel = m /\ cStep = "select") ~> (cSel # m \/ AnimationDone(m))

\* The record list with parent_id null wherever the field is absent.
WithNullParents(tree) ==
    [i \in 1..Len(tree) |->
        IF tree[i].parent_id = Undefined
        THEN [tree[i] EXCEPT !.parent_id = NoParent]
        ELSE tree[i]]

\* The ids of the nodes of a hierarchy in depth-first order.
HierarchyIds(hierarchy) ==
    LET recs == HierarchyRecords(hierarchy)
    IN  [k \in 1..Len(recs) |-> recs[k].id]

\* C35 (root detection): a record whose parent_id is absent is the root as
\* much as one whose parent_id is null: the hierarchy built from a list with
\* absent parent_id fields has the root and the nodes of the hierarchy built
\* from the same list with null in their place.
C35_RootDetection ==
    tOut.done
        => LET nulls == HierarchicalData(
                            [assembly_tree |-> WithNullParents(tIn.tree)])
           IN  /\ (tOut.hierarchy = NoNode) <=> (nulls = NoNode)
               /\ HierarchyIds(tOut.hierarchy) = HierarchyIds(nulls)

\* The position in the list of the record with the id.
PositionOf(tree, id) == CHOOSE i \in 1..Len(tree) : tree[i].id = id

\* The children of the node, and of every node below it, stand in the order
\* of their records in the list.
RECURSIVE InListOrder(_, _)
InListOrder(node, tree) ==
    /\ \A a, b \in 1..Len(node.children) :
          a < b => PositionOf(tree, node.children[a].id)
                       < PositionOf(tree, node.children[b].id)
    /\ \A a \in 1..Len(node.children) : InListOrder(node.children[a], tree)

\* C36 (child order): in the hierarchy of buildTree the children of every
\* node stand in the relative order of their records in the flat list, and
\* the search filter of either tree view keeps that order among the
\* children it keeps.
C36_ChildOrder ==
    tOut.done
        => /\ tOut.hierarchy # NoNode => InListOrder(tOut.hierarchy, tIn.tree)
           /\ tOut.filtered # NoNode => InListOrder(tOut.filtered, tIn.tree)
           /\ tOut.legacyFiltered # NoNode
                  => InListOrder(tOut.legacyFiltered, tIn.tree)

\* C36, reached: a node of the hierarchy has two children and a search is
\* on that keeps both of them in both tree views.
C36_Reached ==
    /\ tOut.done
    /\ tIn.q # <<>>
    /\ tOut.hierarchy # NoNode
    /\ tOut.filtered # NoNode
    /\ tOut.legacyFiltered # NoNode
    /\ Len(tOut.hierarchy.children) = 2
    /\ Len(tOut.filtered.children) = 2
    /\ Len(tOut.legacyFiltered.children) = 2

\* Following parent_id from record i comes back to record i.
OnCycle(tree, i) ==
    \E j \in 1..Len(tree) :
        /\ tree[j].id = tree[i].parent_id
        /\ ChainReaches(tree, j, i, Len(tree))

\* The depth of a node: 1 for a leaf.
RECURSIVE DepthOf(_)
DepthOf(node) ==
    LET deeper[k \in 0..Len(node.children)] ==
            IF k = 0 THEN 0
            ELSE Max2(deeper[k - 1], DepthOf(node.children[k]))
    IN  1 + deeper[Len(node.children)]

\* C37 (buildTree terminates): for every record list with unique ids,
\* whatever cycles and missing ids its parent_id links hold, buildTree(null)
\* has a value: it has at most as many nodes as the list has records, no
\* record is on two of them and the records on a cycle are on none; and the
\* hierarchy the render shows is no deeper than the list is long and has
\* every record at most once and the records on a cycle not at all.
C37_BuildTreeTerminates ==
    /\ LET forest == ChildrenRecords(BuildTree(tIn.tree, NoParent), 1)
       IN  /\ Len(forest) <= Len(tIn.tree)
           /\ \A k, l \in 1..Len(forest) : forest[k] = forest[l] => k = l
           /\ \A i \in 1..Len(tIn.tree) :
                 OnCycle(tIn.tree, i)
                     => \A k \in 1..Len(forest) : forest[k] # tIn.tree[i]
    /\ tOut.done
          => /\ tOut.roots <= Len(tIn.tree)
             /\ tOut.hierarchy # NoNode
                    => DepthOf(tOut.hierarchy) <= Len(tIn.tree)
             /\ \A i \in 1..Len(tIn.tree) :
                   /\ Occurrences(tOut.hierarchy, tIn.tree[i]) <= 1
                   /\ OnCycle(tIn.tree, i)
                          => Occurrences(tOut.hierarchy, tIn.tree[i]) = 0

\* C37, reached: a list of a root and two records that name each other as
\* parent has been rendered, and the hierarchy is the root alone.
C37_Reached ==
    /\ tOut.done
    /\ Len(tIn.tree) = MaxTreeRecs
    /\ Cardinality({i \in 1..Len(tIn.tree) : OnCycle(tIn.tree, i)}) = 2
    /\ \A i \in 1..Len(tIn.tree) : tIn.tree[i].parent_id # tIn.tree[i].id
    /\ tOut.hierarchy # NoNode
    /\ tOut.hierarchy.children = <<>>

\* C38 (the search filter is idempotent and non-destructive): in either
\* tree view, filtering the filtered hierarchy again with the same query
\* returns it unchanged; and the hierarchy the filter was given is, after
\* the render, still the one buildTree made of the record list, which is
\* what the filter returns once the query is cleared.
C38_FilterIdempotent ==
    tOut.done
        => /\ FilteredData(tOut.filtered, tIn.q) = tOut.filtered
           /\ LegacyFilteredData(tOut.legacyFiltered, tIn.q)
                  = tOut.legacyFiltered
           /\ tOut.hierarchy = HierarchicalData([assembly_tree |-> tIn.tree])
           /\ FilteredData(tOut.hierarchy, <<>>)
                  = HierarchicalData([assembly_tree |-> tIn.tree])
           /\ LegacyFilteredData(tOut.hierarchy, <<>>)
                  = HierarchicalData([assembly_tree |-> tIn.tree])

\* C38, reached: a search is on that keeps a part of the hierarchy below the
\* root and drops another part of it.
C38_Reached ==
    /\ tOut.done
    /\ tIn.q # <<>>
    /\ tOut.filtered # NoNode
    /\ tOut.legacyFiltered # NoNode
    /\ Len(tOut.hierarchy.children) = 2
    /\ Len(tOut.filtered.children) = 1
    /\ Len(tOut.legacyFiltered.children) = 1

============================================================================
